---- MODULE Spec2Model ----
(***************************************************************************)
(* A model of net-route: the Route value type and its netmask, the three   *)
(* platform backends (Linux rtnetlink, macOS PF_ROUTE + sysctl, Windows IP *)
(* Helper) behind the Handle facade, and the broadcast fan-out that feeds  *)
(* route_listen_stream().                                                  *)
(***************************************************************************)
EXTENDS Integers, Sequences, FiniteSets, TLC

VARIABLES
    os,             \* the backend selected at build time (platform_impl/mod.rs)
    overflow_checks,\* build profile: TRUE = arithmetic overflow panics
    mask_route,     \* the Route on which mask() was last called
    mask_result,    \* what that call returned
    fn_arg,         \* the input a backend function is called with on its own
    fn_ret,         \* what that call returned
    rib,            \* the kernel's routing table, in dump order
    ver,            \* the number of changes the table has seen
    budget,         \* changes other processes may still make
    nreq,           \* add/delete calls issued
    ncancel,        \* add futures dropped
    call,           \* the facade call in progress, and where it waits
    hist,           \* the last calls that completed
    nl_queue,       \* Linux: requests the connection has not taken yet
    nl_reply,       \* Linux: replies handed to the waiting request
    sock,           \* macOS: the route socket of the call in progress
    lq,             \* notifications waiting for the listener
    listener,       \* the listener task: running, stopped, panicked, aborting, gone
    handle,         \* the Handle: alive, dropping or dropped
    mem,            \* Windows: where the Handle and its boxed Sender lie
    chan,           \* the broadcast channel
    published,      \* every event the listener has sent, in order
    subs            \* the streams of route_listen_stream()

maskVars == <<mask_route, mask_result, fn_arg, fn_ret>>

\* Option<T>
None == [some |-> FALSE]
Some(x) == [some |-> TRUE, v |-> x]

\* the outcome of a call: it returned a value, or it panicked
Returned(x) == [tag |-> "returned", v |-> x]
Panicked == [tag |-> "panic"]
NotCalled == [tag |-> "not called"]

(***************************************************************************)
(* Addresses.  An IpAddr is its family and its octets in network order.    *)
(***************************************************************************)
V4(a, b, c, d) == [fam |-> "V4", oct |-> <<a, b, c, d>>]

V6(s0, s7) ==
    \* an IPv6 address given by its first and last 16-bit segments
    [fam |-> "V6",
     oct |-> <<s0 \div 256, s0 % 256, 0, 0, 0, 0, 0, 0,
               0, 0, 0, 0, 0, 0, s7 \div 256, s7 % 256>>]

Width(fam) == IF fam = "V4" THEN 32 ELSE 128

UNSPECIFIED(fam) == [fam |-> fam, oct |-> [i \in 1..(Width(fam) \div 8) |-> 0]]

Pow2(n) == IF n = 0 THEN 1 ELSE IF n = 1 THEN 2 ELSE IF n = 2 THEN 4
           ELSE IF n = 3 THEN 8 ELSE IF n = 4 THEN 16 ELSE IF n = 5 THEN 32
           ELSE IF n = 6 THEN 64 ELSE 128

\* the bits of an unsigned integer of width w, most significant first
AllOnes(w) == [i \in 1..w |-> 1]
AllZero(w) == [i \in 1..w |-> 0]

\* Ipv4Addr::from(u32) / Ipv6Addr::from(u128): big-endian octets of the bits
BitsToOctets(bits) ==
    [k \in 1..(Len(bits) \div 8) |->
        bits[8*(k-1)+1] * 128 + bits[8*(k-1)+2] * 64 + bits[8*(k-1)+3] * 32
      + bits[8*(k-1)+4] * 16  + bits[8*(k-1)+5] * 8  + bits[8*(k-1)+6] * 4
      + bits[8*(k-1)+7] * 2   + bits[8*(k-1)+8]]

OctetsToBits(oct) ==
    [i \in 1..(8 * Len(oct)) |->
        (oct[((i - 1) \div 8) + 1] \div Pow2(7 - ((i - 1) % 8))) % 2]

\* u32::leading_ones / u128::leading_ones on the big-endian value of octets
\* (the number of 1-bits from bit i up to the first 0-bit)
LeadingOnesFrom(bits, i) ==
    IF \A j \in i..Len(bits) : bits[j] = 1 THEN Len(bits) - i + 1
    ELSE (CHOOSE j \in i..Len(bits) :
              bits[j] = 0 /\ \A k \in i..(j - 1) : bits[k] = 1) - i

leading_ones(oct) == LeadingOnesFrom(OctetsToBits(oct), 1)

(***************************************************************************)
(* Route (lib.rs).  One record carries the fields of every platform; the   *)
(* fields a platform does not compile keep their Route::new default.       *)
(***************************************************************************)
U8Max == 255

Route_new(destination, prefix) ==
    [destination |-> destination, prefix |-> prefix,
     gateway |-> None, ifindex |-> None,
     table |-> 254, metric |-> None, luid |-> None]

with_gateway(r, gateway) == [r EXCEPT !.gateway = gateway]
with_ifindex(r, ifindex) == [r EXCEPT !.ifindex = ifindex]
with_table(r, table) == [r EXCEPT !.table = table]
with_metric(r, metric) == [r EXCEPT !.metric = metric]
with_luid(r, luid) == [r EXCEPT !.luid = luid]

(***************************************************************************)
(* Route::mask.  `w - self.prefix as u32` is a u32 subtraction: with       *)
(* overflow checks it panics when prefix > w, without them it wraps to     *)
(* 2^32 - (prefix - w).  The wrapped value is kept as two 16-bit halves.   *)
(***************************************************************************)
U32Sub(a, b) ==
    IF a >= b
    THEN [overflow |-> FALSE, hi |-> 0, lo |-> a - b]
    ELSE [overflow |-> TRUE, hi |-> 65535, lo |-> 65536 - (b - a)]

\* x << rhs on w bits
Shl(bits, rhs) ==
    [i \in 1..Len(bits) |-> IF i + rhs <= Len(bits) THEN bits[i + rhs] ELSE 0]

\* uN::checked_shl(rhs): None when rhs >= N
checked_shl(bits, rhs) ==
    IF rhs.hi > 0 \/ rhs.lo >= Len(bits) THEN None ELSE Some(Shl(bits, rhs.lo))

unwrap_or(opt, default) == IF opt.some THEN opt.v ELSE default

\* a mask that shifts by the amount modulo the width, as wrapping_shl does
mask_wrapping(r, checks) ==
    LET w == Width(r.destination.fam)
        rhs == U32Sub(w, r.prefix)
    IN  IF rhs.overflow /\ checks THEN Panicked
        ELSE Returned([fam |-> r.destination.fam,
                       oct |-> BitsToOctets(Shl(AllOnes(w), rhs.lo % w))])

mask(r, checks) ==
    LET w == Width(r.destination.fam)
        rhs == U32Sub(w, r.prefix)
    IN  IF rhs.overflow /\ checks THEN Panicked
        ELSE Returned([fam |-> r.destination.fam,
                       oct |-> BitsToOctets(unwrap_or(checked_shl(AllOnes(w), rhs),
                                                      AllZero(w)))])


\* the address of family fam whose first p bits are 1 and whose other bits are 0
PrefixMask(fam, p) ==
    [fam |-> fam,
     oct |-> BitsToOctets([i \in 1..Width(fam) |-> IF i <= p THEN 1 ELSE 0])]

PrefixMaskOctets(fam, p) == PrefixMask(fam, p).oct

(***************************************************************************)
(* io::Result and io::ErrorKind.                                           *)
(***************************************************************************)
Ok(v) == [ok |-> TRUE, v |-> v]
Err(kind, code) == [ok |-> FALSE, kind |-> kind, code |-> code]
Unit == "()"

\* errno values the kernels answer with
EEXIST == 17
ESRCH == 3
ENODEV == 19

(***************************************************************************)
(* Linux: rtnetlink messages (netlink_packet_route::route::RouteMessage).  *)
(* A message is its header and its list of attributes.                     *)
(***************************************************************************)
RouteAddress(addr) ==
    [kind |-> IF addr.fam = "V4" THEN "Inet" ELSE "Inet6", ip |-> addr]

Attr(tag, val) == [tag |-> tag, val |-> val]

AddressFamily(fam) == IF fam = "V4" THEN "Inet" ELSE "Inet6"

addr_to_ip(addr) ==
    IF addr.kind \in {"Inet", "Inet6"} THEN Some(addr.ip) ELSE None

\* `for attr in msg.attributes { match attr { Tag(addr) => x = addr_to_ip(addr) } }`:
\* what the loop leaves in x, starting from acc
RECURSIVE AddrAttr(_, _, _)
AddrAttr(attrs, tag, acc) ==
    IF attrs = <<>> THEN acc
    ELSE AddrAttr(Tail(attrs), tag,
                  IF Head(attrs).tag = tag THEN addr_to_ip(Head(attrs).val) ELSE acc)

RECURSIVE OifAttr(_, _)
OifAttr(attrs, acc) ==
    IF attrs = <<>> THEN acc
    ELSE OifAttr(Tail(attrs),
                 IF Head(attrs).tag = "Oif" THEN Some(Head(attrs).val) ELSE acc)

\* impl From<RouteMessage> for Route
RouteMessage_into_Route(msg) ==
    LET gateway == AddrAttr(msg.attributes, "Gateway", None)
        destination == AddrAttr(msg.attributes, "Destination", None)
        ifindex == OifAttr(msg.attributes, None)
    IN  IF ~destination.some /\ msg.header.address_family \notin {"Inet", "Inet6"}
        THEN Panicked
        ELSE Returned(
               [destination |->
                    IF destination.some THEN destination.v
                    ELSE IF msg.header.address_family = "Inet"
                         THEN UNSPECIFIED("V4") ELSE UNSPECIFIED("V6"),
                prefix |-> msg.header.destination_prefix_length,
                gateway |-> gateway,
                ifindex |-> ifindex,
                table |-> msg.header.table,
                metric |-> None, luid |-> None])

\* RouteExt::destination_prefix: the first Destination attribute that is an IP
RECURSIVE destination_prefix_in(_, _)
destination_prefix_in(attrs, len) ==
    IF attrs = <<>> THEN None
    ELSE IF Head(attrs).tag = "Destination" /\ addr_to_ip(Head(attrs).val).some
         THEN Some(<<addr_to_ip(Head(attrs).val).v, len>>)
         ELSE destination_prefix_in(Tail(attrs), len)

destination_prefix(msg) ==
    destination_prefix_in(msg.attributes, msg.header.destination_prefix_length)

OptAttr(tag, opt) == IF opt.some THEN <<Attr(tag, opt.v)>> ELSE <<>>

OptAddrAttr(tag, opt) ==
    IF opt.some THEN <<Attr(tag, RouteAddress(opt.v))>> ELSE <<>>

\* route.source, route.source_prefix and route.source_hint as linux.rs reads
\* them; a Route built by Route::new alone carries none
source(route) == IF "source" \in DOMAIN route THEN route.source ELSE None
source_prefix(route) == IF "source_prefix" \in DOMAIN route THEN route.source_prefix ELSE 0
source_hint(route) == IF "source_hint" \in DOMAIN route THEN route.source_hint ELSE None

\* an add that checks the gateway alone (through the shared test below)
OtherFamily_gateway_only(route, opt) ==
    opt.some /\ opt.v.fam /= route.destination.fam /\ opt = route.gateway

\* an address given with the route is of another family than its destination
OtherFamily(route, opt) == opt.some /\ opt.v.fam /= route.destination.fam

\* Handle::add on Linux up to `msg.execute()`: the request it builds, or the
\* InvalidInput it returns when the family of the gateway, of the source hint
\* or of the source is not the destination's
LinuxAddRequest(route) ==
    IF OtherFamily(route, route.gateway) THEN Err("InvalidInput", 0)
    ELSE IF OtherFamily(route, source_hint(route)) THEN Err("InvalidInput", 0)
    ELSE IF OtherFamily(route, source(route)) THEN Err("InvalidInput", 0)
    ELSE Ok([header |-> [address_family |-> AddressFamily(route.destination.fam),
                         destination_prefix_length |-> route.prefix,
                         source_prefix_length |->
                             IF source(route).some THEN source_prefix(route) ELSE 0,
                         table |-> route.table],
             attributes |-> <<Attr("Destination", RouteAddress(route.destination))>>
                            \o OptAttr("Oif", route.ifindex)
                            \o OptAddrAttr("Gateway", route.gateway)
                            \o OptAddrAttr("PrefSource", source_hint(route))
                            \o OptAddrAttr("Source", source(route))])

(***************************************************************************)
(* The Linux kernel's side of rtnetlink.  An installed entry is            *)
(* [destination, prefix, gateway, ifindex, table]; the table is kept in    *)
(* dump order.  A dump omits RTA_DST for a /0 entry ("rtnetlink gives None *)
(* instead of 0.0.0.0 for the default route") and carries RTA_GATEWAY only *)
(* for an entry that has a gateway.                                        *)
(***************************************************************************)
LinuxDumpMessage(e) ==
    [header |-> [address_family |-> AddressFamily(e.destination.fam),
                 destination_prefix_length |-> e.prefix,
                 source_prefix_length |-> 0,
                 table |-> e.table],
     attributes |-> <<Attr("Table", e.table)>>
                    \o (IF e.prefix > 0
                        THEN <<Attr("Destination", RouteAddress(e.destination))>>
                        ELSE <<>>)
                    \o OptAddrAttr("Gateway", e.gateway)
                    \o OptAttr("Oif", e.ifindex)]

SeqMap(f(_), s) == [i \in 1..Len(s) |-> f(s[i])]

IsFam4(e) == e.destination.fam = "V4"
IsFam6(e) == e.destination.fam = "V6"

\* the answer to RTM_GETROUTE for one family: the entries of that family in order
LinuxDump(table, fam) ==
    SeqMap(LinuxDumpMessage,
           IF fam = "V4" THEN SelectSeq(table, IsFam4) ELSE SelectSeq(table, IsFam6))

\* the interface the kernel resolves for a nexthop given without a device
EnvIfindex == 9

\* the entry an RTM_NEWROUTE request asks for
LinuxRequestedEntry(msg) ==
    LET r == RouteMessage_into_Route(msg).v
    IN  [destination |-> r.destination, prefix |-> r.prefix,
         gateway |-> r.gateway,
         ifindex |-> IF r.ifindex.some THEN r.ifindex ELSE Some(EnvIfindex),
         table |-> r.table, metric |-> None, luid |-> None]

SameKey(a, b) ==
    a.destination = b.destination /\ a.prefix = b.prefix /\ a.table = b.table

InsertAt(s, pos, x) == SubSeq(s, 1, pos) \o <<x>> \o SubSeq(s, pos + 1, Len(s))
RemoveAt(s, pos) == SubSeq(s, 1, pos - 1) \o SubSeq(s, pos + 1, Len(s))

\* RTM_NEWROUTE with NLM_F_CREATE | NLM_F_EXCL: 0, or the errno
LinuxNewRouteErrno(table, msg) ==
    LET r == RouteMessage_into_Route(msg).v
    IN  IF ~r.gateway.some /\ ~r.ifindex.some THEN ENODEV
        ELSE IF \E i \in 1..Len(table) : SameKey(table[i], LinuxRequestedEntry(msg))
             THEN EEXIST
             ELSE 0

\* RTM_DELROUTE with the message of a dump: the position of the entry it names
LinuxDelRoutePos(table, msg) ==
    IF \E i \in 1..Len(table) : LinuxDumpMessage(table[i]) = msg
    THEN CHOOSE i \in 1..Len(table) :
            /\ LinuxDumpMessage(table[i]) = msg
            /\ \A j \in 1..(i - 1) : LinuxDumpMessage(table[j]) /= msg
    ELSE 0

\* a scan that also compares the gateway and the interface
RECURSIVE LinuxDeleteScan_exact(_, _)
LinuxDeleteScan_exact(msgs, route) ==
    IF msgs = <<>> THEN None
    ELSE LET other_route == RouteMessage_into_Route(Head(msgs)).v
         IN  IF other_route.destination = route.destination
                /\ other_route.prefix = route.prefix
                /\ other_route.gateway = route.gateway
                /\ other_route.ifindex = route.ifindex
             THEN Some(Head(msgs))
             ELSE LinuxDeleteScan_exact(Tail(msgs), route)

\* Handle::delete's scan of the dump: the first message whose decoded
\* destination and prefix are the route's
RECURSIVE LinuxDeleteScan(_, _)
LinuxDeleteScan(msgs, route) ==
    IF msgs = <<>> THEN None
    ELSE LET other_route == RouteMessage_into_Route(Head(msgs)).v
         IN  IF other_route.destination = route.destination
                /\ other_route.prefix = route.prefix
             THEN Some(Head(msgs))
             ELSE LinuxDeleteScan(Tail(msgs), route)

\* a default-route scan that builds its answer from the gateway alone
RECURSIVE LinuxDefaultScan_bare(_)
LinuxDefaultScan_bare(msgs) ==
    IF msgs = <<>> THEN None
    ELSE IF ~destination_prefix(Head(msgs)).some
         THEN LET r == RouteMessage_into_Route(Head(msgs)).v
              IN  Some(with_gateway(Route_new(r.destination, r.prefix), r.gateway))
         ELSE LinuxDefaultScan_bare(Tail(msgs))

\* Handle::default_route's scan of one dump: the first message without a
\* destination, converted
RECURSIVE LinuxDefaultScan(_)
LinuxDefaultScan(msgs) ==
    IF msgs = <<>> THEN None
    ELSE IF ~destination_prefix(Head(msgs)).some
         THEN Some(RouteMessage_into_Route(Head(msgs)).v)
         ELSE LinuxDefaultScan(Tail(msgs))

\* `.map_err(|e| Error::new(io::ErrorKind::Other, e.to_string()))`
LinuxMapErr(errno) == Err("Other", errno)


(***************************************************************************)
(* macOS: PF_ROUTE messages.  A message is an rt_msghdr and a body of      *)
(* packed sockaddrs, kept as bytes.  rtm_addrs and rtm_flags are bit sets. *)
(***************************************************************************)
RTAX_DST == 0
RTAX_GATEWAY == 1
RTAX_NETMASK == 2
RTAX_MAX == 8
RTM_ADD == 1
RTM_DELETE == 2
RTM_CHANGE == 3
RTM_VERSION == 5
AF_INET == 2
AF_INET6 == 30
AF_LINK == 18
SIZEOF_rt_msghdr == 92
SIZEOF_sockaddr == 16
SIZEOF_sockaddr_in == 16
SIZEOF_sockaddr_in6 == 28
SIZEOF_sockaddr_dl == 20
SIZEOF_attrs == 128

Zeros(n) == [i \in 1..n |-> 0]

\* a byte of the slice, or the byte the memory behind the slice happens to
\* hold when the read runs past its end
ByteAt(msg, i, oob) == IF i <= Len(msg) THEN msg[i] ELSE oob

BytesAt(msg, from, n, oob) == [k \in 1..n |-> ByteAt(msg, from + k - 1, oob)]

\* the sockaddr walk of message_to_route: Panicked, or the offset of the
\* sockaddr of each RTAX index (None where the slot stays empty)
RECURSIVE route_addresses(_, _, _, _, _, _)
route_addresses(rtm_addrs, msg, idx, cur_pos, acc, checks) ==
    IF idx = RTAX_MAX THEN Returned(acc)
    ELSE IF idx \notin rtm_addrs
    THEN route_addresses(rtm_addrs, msg, idx + 1, cur_pos, acc, checks)
    ELSE IF cur_pos > Len(msg) THEN Panicked            \* &msg[cur_pos..]
    ELSE IF Len(msg) - cur_pos < SIZEOF_sockaddr
    THEN route_addresses(rtm_addrs, msg, idx + 1, cur_pos, acc, checks)
    ELSE LET sa_len == msg[cur_pos + 1]
             rounded == ((sa_len - 1) - ((sa_len - 1) % 4)) + 3 + 1
         IN  IF Len(msg) - cur_pos < sa_len THEN Panicked
             ELSE IF sa_len /= 0 /\ rounded > U8Max /\ checks THEN Panicked
             ELSE route_addresses(
                    rtm_addrs, msg, idx + 1,
                    cur_pos + (IF sa_len = 0 THEN 4 ELSE rounded % (U8Max + 1)),
                    [acc EXCEPT ![idx] = Some(cur_pos)], checks)

NoAddresses == [i \in 0..(RTAX_MAX - 1) |-> None]

\* sa_to_ip on the sockaddr at offset off of msg
sa_to_ip(msg, off, oob) ==
    LET sa_len == ByteAt(msg, off + 1, oob)
        sa_family == ByteAt(msg, off + 2, oob)
    IN  IF sa_family = AF_INET
        THEN IF sa_len < SIZEOF_sockaddr_in THEN Panicked
             ELSE Returned(Some([fam |-> "V4", oct |-> BytesAt(msg, off + 5, 4, oob)]))
        ELSE IF sa_family = AF_INET6
        THEN IF sa_len < SIZEOF_sockaddr_in6 THEN Panicked
             ELSE Returned(Some([fam |-> "V6", oct |-> BytesAt(msg, off + 9, 16, oob)]))
        ELSE Returned(None)

\* the gateway of message_to_route: an IPv6 gateway whose first segment is
\* fe80, or that is multicast of scope 1 or 2, loses its second segment
strip_zone(gw) ==
    IF gw.some /\ gw.v.fam = "V6"
       /\ \/ (gw.v.oct[1] = 254 /\ gw.v.oct[2] = 128)
          \/ (gw.v.oct[1] = 255 /\ (gw.v.oct[2] % 16) \in {1, 2})
    THEN Some([gw.v EXCEPT !.oct[3] = 0, !.oct[4] = 0])
    ELSE gw

\* message_to_route: Returned(None), Returned(Some(route)) or Panicked
message_to_route(hdr, msg, checks, oob) ==
    IF RTAX_DST \notin hdr.rtm_addrs THEN Returned(None)
    ELSE
    LET walk == route_addresses(hdr.rtm_addrs, msg, 0, 0, NoAddresses, checks)
    IN  IF walk = Panicked THEN Panicked
        ELSE IF ~walk.v[RTAX_DST].some THEN Panicked        \* .unwrap()
        ELSE
        LET dst == sa_to_ip(msg, walk.v[RTAX_DST].v, oob)
        IN  IF dst = Panicked THEN Panicked
            ELSE IF ~dst.v.some THEN Returned(None)         \* the `?`
            ELSE
            LET destination == dst.v.v
                has_gw == RTAX_GATEWAY \in hdr.rtm_addrs
                gw == IF has_gw /\ walk.v[RTAX_GATEWAY].some
                      THEN sa_to_ip(msg, walk.v[RTAX_GATEWAY].v, oob)
                      ELSE Returned(None)
                mask_slot == walk.v[RTAX_NETMASK]
                prefix ==
                    IF RTAX_NETMASK \notin hdr.rtm_addrs
                    THEN Width(destination.fam)
                    ELSE IF ~mask_slot.some THEN 0
                    ELSE IF msg[mask_slot.v + 1] = 0 THEN 0
                    ELSE IF destination.fam = "V4"
                         THEN leading_ones(BytesAt(msg, mask_slot.v + 5, 4, oob))
                         ELSE leading_ones(BytesAt(msg, mask_slot.v + 9, 16, oob))
            IN  IF has_gw /\ ~walk.v[RTAX_GATEWAY].some THEN Panicked   \* .unwrap()
                ELSE IF gw = Panicked THEN Panicked
                ELSE Returned(Some(
                       [destination |-> destination,
                        prefix |-> prefix,
                        gateway |-> strip_zone(gw.v),
                        ifindex |-> Some(hdr.rtm_index),
                        table |-> 254, metric |-> None, luid |-> None]))

\* the bytes of the sockaddr structures add_or_del_route writes
sockaddr_in(addr) ==
    <<SIZEOF_sockaddr_in, AF_INET, 0, 0>> \o addr.oct \o Zeros(8)

sockaddr_in6(addr) ==
    <<SIZEOF_sockaddr_in6, AF_INET6, 0, 0>> \o Zeros(4) \o addr.oct \o Zeros(4)

sockaddr_dl(ifindex) ==
    <<SIZEOF_sockaddr_dl, AF_LINK, (ifindex % 65536) % 256, (ifindex % 65536) \div 256>>
    \o Zeros(16)

sockaddr_of(addr) == IF addr.fam = "V4" THEN sockaddr_in(addr) ELSE sockaddr_in6(addr)

\* add_or_del_route up to the socket: the request message it builds
mac_request(dst, dst_mask, gateway, ifindex, add) ==
    LET attrs == sockaddr_of(dst)
                 \o (IF gateway.some THEN sockaddr_of(gateway.v) ELSE <<>>)
                 \o (IF ifindex.some THEN sockaddr_dl(ifindex.v) ELSE <<>>)
                 \o sockaddr_of(dst_mask)
    IN  [hdr |-> [rtm_msglen |-> SIZEOF_rt_msghdr + Len(attrs),
                  rtm_version |-> RTM_VERSION,
                  rtm_type |-> IF add THEN RTM_ADD ELSE RTM_DELETE,
                  rtm_index |-> 0,
                  rtm_flags |-> {"RTF_STATIC", "RTF_UP"}
                                \cup (IF gateway.some \/ ~add
                                      THEN {"RTF_GATEWAY"} ELSE {}),
                  rtm_addrs |-> {RTAX_DST, RTAX_NETMASK}
                                \cup (IF add THEN {RTAX_GATEWAY} ELSE {}),
                  rtm_seq |-> 1,
                  rtm_errno |-> 0],
         body |-> attrs]

\* io::Error::from_raw_os_error / io::Error::last_os_error on macOS: the kind
\* std gives the errno (EPERM 1, EACCES 13, ENOENT 2, ENOMEM 12, EEXIST 17,
\* EINVAL 22, ENETUNREACH 51; an errno std has no kind for is Uncategorized)
os_error(errno) ==
    Err(IF errno \in {1, 13} THEN "PermissionDenied"
        ELSE IF errno = 2 THEN "NotFound"
        ELSE IF errno = 12 THEN "OutOfMemory"
        ELSE IF errno = 17 THEN "AlreadyExists"
        ELSE IF errno = 22 THEN "InvalidInput"
        ELSE IF errno = 51 THEN "NetworkUnreachable"
        ELSE "Uncategorized", errno)

\* try_get_msg_buf: sysctl[i] is what the two sysctl calls of attempt i answer
\* (0, or the errno); the result names the attempt whose buffer is used
MAX_RETRYS == 3

RECURSIVE try_get_msg_buf(_, _)
try_get_msg_buf(sysctl, i) ==
    IF i > MAX_RETRYS THEN Err("Other", 0)       \* "Failed to get routing table"
    ELSE IF sysctl[i].size /= 0 THEN os_error(sysctl[i].size)
    ELSE IF sysctl[i].fill /= 0 THEN try_get_msg_buf(sysctl, i + 1)
    ELSE Ok([attempt |-> i])

\* code_to_error of the macOS backend
mac_code_to_error(err) ==
    Err(IF err = 17 THEN "AlreadyExists"
        ELSE IF err = 3 THEN "NotFound"
        ELSE IF err = 3436 THEN "OutOfMemory"
        ELSE "Other", err)

(***************************************************************************)
(* The macOS kernel's side.  It reads the sockaddrs of a request in RTAX   *)
(* order against rtm_addrs (rt_xaddrs; the walk route.c's get_rtaddrs      *)
(* mirrors), one slot per bit set, so the third sockaddr of a request      *)
(* whose bits are DST, GATEWAY and NETMASK is its netmask whatever it is.  *)
(* An installed entry is [destination, prefix, gateway, ifindex, flags].   *)
(***************************************************************************)
And8(a, b) ==
    BitsToOctets([i \in 1..8 |-> OctetsToBits(<<a>>)[i] * OctetsToBits(<<b>>)[i]])[1]

MaskedOctets(oct, m) == [i \in 1..Len(oct) |-> And8(oct[i], m[i])]

\* the netmask bytes of a sockaddr in a request: those inside sa_len
MacMaskOctets(msg, off, fam) ==
    LET sa_len == msg[off + 1]
        first == IF fam = "V4" THEN 5 ELSE 9
    IN  [k \in 1..(Width(fam) \div 8) |->
            IF first + k - 1 <= sa_len /\ off + first + k - 1 <= Len(msg)
            THEN msg[off + first + k - 1] ELSE 0]

\* the entry a request names: its destination under its netmask, its prefix,
\* its gateway (an address, or a link sockaddr that names an interface)
MacRequestedEntry(req) ==
    LET walk == route_addresses(req.hdr.rtm_addrs, req.body, 0, 0, NoAddresses, FALSE).v
        dst == sa_to_ip(req.body, walk[RTAX_DST].v, 0).v.v
        m == IF walk[RTAX_NETMASK].some
             THEN MacMaskOctets(req.body, walk[RTAX_NETMASK].v, dst.fam)
             ELSE [k \in 1..(Width(dst.fam) \div 8) |-> 255]
        gwoff == walk[RTAX_GATEWAY]
        gwfam == IF gwoff.some THEN req.body[gwoff.v + 2] ELSE 0
    IN  [destination |-> [fam |-> dst.fam, oct |-> MaskedOctets(dst.oct, m)],
         prefix |-> leading_ones(m),
         gateway |-> IF gwfam \in {AF_INET, AF_INET6}
                     THEN sa_to_ip(req.body, gwoff.v, 0).v ELSE None,
         ifindex |-> IF gwfam = AF_LINK
                     THEN Some(req.body[gwoff.v + 3] + 256 * req.body[gwoff.v + 4])
                     ELSE Some(EnvIfindex),
         table |-> 254, metric |-> None, luid |-> None,
         flags |-> req.hdr.rtm_flags]

MacSameKey(a, b) == a.destination = b.destination /\ a.prefix = b.prefix

MacFind(table, e) ==
    IF \E i \in 1..Len(table) : MacSameKey(table[i], e)
    THEN CHOOSE i \in 1..Len(table) : MacSameKey(table[i], e)
    ELSE 0

\* the kernel's form of a netmask in a dump: trailing zero bytes trimmed,
\* sa_len 0 for the empty mask, padded to a multiple of 4
MacCompactMask(fam, prefix) ==
    LET first == IF fam = "V4" THEN 4 ELSE 8
        n == (prefix + 7) \div 8
        sa_len == IF prefix = 0 THEN 0 ELSE first + n
        m == PrefixMaskOctets(fam, prefix)
        bytes == <<sa_len>> \o Zeros(first - 1) \o SubSeq(m, 1, n)
    IN  bytes \o Zeros((4 - (Len(bytes) % 4)) % 4)

\* the kernel's form of a gateway: an IPv6 gateway of link-local scope
\* (fe80::/10) or multicast of interface-local or link-local scope carries
\* the interface index in bytes 2-3 of the address
MacEmbedZone(gw, ifindex) ==
    IF gw.fam = "V6"
       /\ \/ (gw.oct[1] = 254 /\ gw.oct[2] \div 64 = 2)
          \/ (gw.oct[1] = 255 /\ (gw.oct[2] % 16) \in {1, 2})
    THEN [gw EXCEPT !.oct[3] = ifindex \div 256, !.oct[4] = ifindex % 256]
    ELSE gw

\* one record of the NET_RT_DUMP buffer
MacDumpRecord(e) ==
    LET host == e.prefix = Width(e.destination.fam)
        body == sockaddr_of(e.destination)
                \o (IF e.gateway.some
                    THEN sockaddr_of(MacEmbedZone(e.gateway.v, e.ifindex.v))
                    ELSE sockaddr_dl(e.ifindex.v))
                \o (IF host THEN <<>> ELSE MacCompactMask(e.destination.fam, e.prefix))
    IN  [hdr |-> [rtm_msglen |-> SIZEOF_rt_msghdr + Len(body),
                  rtm_version |-> RTM_VERSION,
                  rtm_type |-> 4,
                  rtm_index |-> e.ifindex.v,
                  rtm_flags |-> e.flags \cup (IF host THEN {"RTF_HOST"} ELSE {}),
                  rtm_addrs |-> {RTAX_DST, RTAX_GATEWAY}
                                \cup (IF host THEN {} ELSE {RTAX_NETMASK}),
                  rtm_seq |-> 0,
                  rtm_errno |-> 0],
         body |-> body]

\* list_routes over the records of the buffer sysctl filled
RECURSIVE list_routes_from(_, _, _, _)
list_routes_from(records, routes, checks, oob) ==
    IF records = <<>> THEN Returned(Ok(routes))
    ELSE
    LET rec == Head(records)
        rt_hdr == rec.hdr
    IN  IF rt_hdr.rtm_version /= RTM_VERSION THEN Panicked
        ELSE IF rt_hdr.rtm_errno /= 0
        THEN Returned(mac_code_to_error(rt_hdr.rtm_errno))
        ELSE IF "RTF_WASCLONED" \in rt_hdr.rtm_flags
        THEN list_routes_from(Tail(records), routes, checks, oob)
        ELSE IF rt_hdr.rtm_msglen < SIZEOF_rt_msghdr
                \/ rt_hdr.rtm_msglen > SIZEOF_rt_msghdr + Len(rec.body)
        THEN Panicked
        ELSE
        LET rt_msg == SubSeq(rec.body, 1, rt_hdr.rtm_msglen - SIZEOF_rt_msghdr)
            route == message_to_route(rt_hdr, rt_msg, checks, oob)
        IN  IF route = Panicked THEN Panicked
            ELSE list_routes_from(Tail(records),
                                  IF route.v.some THEN Append(routes, route.v.v)
                                  ELSE routes,
                                  checks, oob)

\* the bytes of an rt_msghdr (little-endian fields; rtm_flags holds RTF_UP 0x1,
\* RTF_GATEWAY 0x2, RTF_HOST 0x4, RTF_DONE 0x40, RTF_STATIC 0x800 and
\* RTF_WASCLONED 0x20000) and the header read back at an offset of a buffer
FlagByte(flags, names) ==
    BitsToOctets([i \in 1..8 |-> IF names[i] \in flags THEN 1 ELSE 0])[1]

rt_msghdr_bytes(h) ==
    <<h.rtm_msglen % 256, h.rtm_msglen \div 256, h.rtm_version, h.rtm_type,
      h.rtm_index % 256, h.rtm_index \div 256, 0, 0,
      FlagByte(h.rtm_flags, <<"-", "RTF_DONE", "-", "-", "-", "RTF_HOST",
                              "RTF_GATEWAY", "RTF_UP">>),
      FlagByte(h.rtm_flags, <<"-", "-", "-", "-", "RTF_STATIC", "-", "-", "-">>),
      FlagByte(h.rtm_flags, <<"-", "-", "-", "-", "-", "-", "RTF_WASCLONED", "-">>),
      0,
      BitsToOctets([i \in 1..8 |-> IF (8 - i) \in h.rtm_addrs THEN 1 ELSE 0])[1],
      0, 0, 0>>
    \o Zeros(4) \o <<h.rtm_seq, 0, 0, 0>> \o <<h.rtm_errno % 256, h.rtm_errno \div 256, 0, 0>>
    \o Zeros(8) \o Zeros(56)

rt_msghdr_at(buf, off) ==
    [rtm_msglen |-> buf[off + 1] + 256 * buf[off + 2],
     rtm_version |-> buf[off + 3],
     rtm_type |-> buf[off + 4],
     rtm_index |-> buf[off + 5] + 256 * buf[off + 6],
     rtm_flags |-> IF (buf[off + 11] \div 2) % 2 = 1 THEN {"RTF_WASCLONED"} ELSE {},
     rtm_addrs |-> {i \in 0..(RTAX_MAX - 1) : (buf[off + 13] \div Pow2(i)) % 2 = 1},
     rtm_errno |-> buf[off + 25] + 256 * buf[off + 26]]

Diverges == [tag |-> "diverges"]

\* the loop of list_routes over the buffer msgs_buf and the length len the
\* second sysctl returned.  A turn that leaves the offset where it was meets
\* the same header again and the loop never ends.  visited: the offsets at which
\* a header was read; beyond: a record was sliced past len
RECURSIVE list_routes_loop(_, _, _, _, _, _, _)
list_routes_loop(msgs_buf, len, offset, routes, visited, beyond, checks) ==
    IF offset + SIZEOF_rt_msghdr > len
    THEN [out |-> Returned(Ok(routes)), visited |-> visited, beyond |-> beyond]
    ELSE
    LET rt_hdr == rt_msghdr_at(msgs_buf, offset)
        msg_len == rt_hdr.rtm_msglen
        seen == Append(visited, offset)
        stop(res) == [out |-> res, visited |-> seen, beyond |-> beyond]
    IN  IF rt_hdr.rtm_version /= RTM_VERSION THEN stop(Panicked)
        ELSE IF rt_hdr.rtm_errno /= 0
        THEN stop(Returned(mac_code_to_error(rt_hdr.rtm_errno)))
        ELSE IF "RTF_WASCLONED" \in rt_hdr.rtm_flags
        THEN IF msg_len = 0 THEN stop(Diverges)
             ELSE list_routes_loop(msgs_buf, len, offset + msg_len, routes, seen,
                                   beyond, checks)
        ELSE IF msg_len < SIZEOF_rt_msghdr \/ msg_len > Len(msgs_buf) - offset
        THEN stop(Panicked)                  \* &mut buf[size_of::<rt_msghdr>()..msg_len]
        ELSE
        LET rt_msg == SubSeq(msgs_buf, offset + SIZEOF_rt_msghdr + 1, offset + msg_len)
            route == message_to_route(rt_hdr, rt_msg, checks, 0)
        IN  IF route = Panicked THEN stop(Panicked)
            ELSE list_routes_loop(msgs_buf, len, offset + msg_len,
                                  IF route.v.some THEN Append(routes, route.v.v)
                                  ELSE routes,
                                  seen, beyond \/ offset + msg_len > len, checks)

list_routes(table, checks, oob) ==
    list_routes_from(SeqMap(MacDumpRecord, table), <<>>, checks, oob)

\* a predicate that leaves the gateway unchecked
is_default_any_gateway(route) ==
    /\ route.destination \in {UNSPECIFIED("V4"), UNSPECIFIED("V6")}
    /\ route.prefix = 0

\* the default-route predicate of the macOS and Windows backends
is_default(route) ==
    /\ route.destination \in {UNSPECIFIED("V4"), UNSPECIFIED("V6")}
    /\ route.prefix = 0
    /\ route.gateway /= Some(UNSPECIFIED("V4"))
    /\ route.gateway /= Some(UNSPECIFIED("V6"))

\* Handle::default_route on macOS: the first route of list() that is a default
RECURSIVE first_default(_)
first_default(routes) ==
    IF routes = <<>> THEN None
    ELSE IF is_default(Head(routes)) THEN Some(Head(routes))
    ELSE first_default(Tail(routes))


(***************************************************************************)
(* Windows: MIB_IPFORWARD_ROW2.  A SOCKADDR_INET is a union: si_family,    *)
(* the IPv4 address (Ipv4.sin_addr) and the IPv6 address (Ipv6.sin6_addr)  *)
(* lie at different offsets and are kept apart.                            *)
(***************************************************************************)
WIN_AF_UNSPEC == 0
WIN_AF_INET == 2
WIN_AF_INET6 == 23
ERROR_SUCCESS == 0
ERROR_INVALID_PARAMETER == 87
ERROR_NOT_FOUND == 1168
ERROR_OBJECT_ALREADY_EXISTS == 5010

ZeroSockaddrInet == [si_family |-> WIN_AF_UNSPEC, sin_addr |-> Zeros(4), sin6_addr |-> Zeros(16)]

\* std::mem::zeroed() followed by InitializeIpForwardEntry
InitializeIpForwardEntry ==
    [DestinationPrefix |-> [Prefix |-> ZeroSockaddrInet, PrefixLength |-> 0],
     NextHop |-> ZeroSockaddrInet,
     InterfaceIndex |-> 0, InterfaceLuid |-> 0, Metric |-> 0]

SockaddrInetSet(sa, addr) ==
    IF addr.fam = "V4"
    THEN [sa EXCEPT !.si_family = WIN_AF_INET, !.sin_addr = addr.oct]
    ELSE [sa EXCEPT !.si_family = WIN_AF_INET6, !.sin6_addr = addr.oct]

\* impl From<&Route> for MIB_IPFORWARD_ROW2
Route_into_Row(route) ==
    LET row0 == InitializeIpForwardEntry
        row1 == IF route.ifindex.some
                THEN [row0 EXCEPT !.InterfaceIndex = route.ifindex.v] ELSE row0
        row2 == IF route.luid.some
                THEN [row1 EXCEPT !.InterfaceLuid = route.luid.v] ELSE row1
        row3 == IF route.gateway.some
                THEN [row2 EXCEPT !.NextHop = SockaddrInetSet(@, route.gateway.v)]
                ELSE [row2 EXCEPT !.NextHop.si_family =
                          IF route.destination.fam = "V4" THEN WIN_AF_INET
                          ELSE WIN_AF_INET6]
        row4 == [row3 EXCEPT !.DestinationPrefix.PrefixLength = route.prefix,
                             !.DestinationPrefix.Prefix =
                                 SockaddrInetSet(@, route.destination)]
    IN  IF route.metric.some THEN [row4 EXCEPT !.Metric = route.metric.v] ELSE row4

SockaddrInetGet(sa) ==
    IF sa.si_family = WIN_AF_INET THEN Some([fam |-> "V4", oct |-> sa.sin_addr])
    ELSE IF sa.si_family = WIN_AF_INET6 THEN Some([fam |-> "V6", oct |-> sa.sin6_addr])
    ELSE None

\* row_to_route: Panicked on a destination that is neither AF_INET nor AF_INET6
row_to_route(row) ==
    LET dst == SockaddrInetGet(row.DestinationPrefix.Prefix)
    IN  IF ~dst.some THEN Panicked
        ELSE Returned(Some(
               [destination |-> dst.v,
                prefix |-> row.DestinationPrefix.PrefixLength,
                gateway |-> SockaddrInetGet(row.NextHop),
                ifindex |-> Some(row.InterfaceIndex),
                table |-> 254,
                metric |-> Some(row.Metric),
                luid |-> Some(row.InterfaceLuid)]))

\* code_to_error of the Windows backend
win_code_to_error(code) ==
    Err(IF code = 2 THEN "NotFound"
        ELSE IF code = 5 THEN "PermissionDenied"
        ELSE IF code = 87 THEN "InvalidInput"
        ELSE IF code = 5010 THEN "AlreadyExists"
        ELSE IF code = 1168 THEN "NotFound"
        ELSE "Other", code)

\* Handle::list on Windows: every row of GetIpForwardTable2, converted
RECURSIVE win_rows_to_routes(_, _)
win_rows_to_routes(rows, acc) ==
    IF rows = <<>> THEN Returned(Ok(acc))
    ELSE LET r == row_to_route(Head(rows))
         IN  IF r = Panicked THEN Panicked
             ELSE win_rows_to_routes(Tail(rows),
                                     IF r.v.some THEN Append(acc, r.v.v) ELSE acc)

win_list(table) == win_rows_to_routes(table, <<>>)

\* list.sort_by(|a, b| a.metric.cmp(&b.metric)) is stable: the first element
\* of the sorted list is the first one whose metric is the least
RECURSIVE first_least_metric(_, _)
first_least_metric(routes, best) ==
    IF routes = <<>> THEN best
    ELSE first_least_metric(Tail(routes),
                            IF Head(routes).metric.v < best.metric.v
                            THEN Head(routes) ELSE best)

\* Handle::default_route on Windows, from the result of list()
win_default_route(routes) ==
    LET list == SelectSeq(routes, is_default)
    IN  IF list = <<>> THEN None
        ELSE Some(first_least_metric(Tail(list), Head(list)))

(***************************************************************************)
(* The Windows side of the IP Helper calls.  The table holds rows; a row   *)
(* is named by its destination prefix, next hop and interface.             *)
(***************************************************************************)
WinSameKey(a, b) ==
    /\ a.DestinationPrefix = b.DestinationPrefix
    /\ a.NextHop = b.NextHop
    /\ a.InterfaceIndex = b.InterfaceIndex
    /\ a.InterfaceLuid = b.InterfaceLuid

WinFind(table, row) ==
    IF \E i \in 1..Len(table) : WinSameKey(table[i], row)
    THEN CHOOSE i \in 1..Len(table) : WinSameKey(table[i], row)
    ELSE 0

\* CreateIpForwardEntry2
WinCreateCode(table, row) ==
    IF row.InterfaceIndex = 0 /\ row.InterfaceLuid = 0 THEN ERROR_INVALID_PARAMETER
    ELSE IF WinFind(table, row) /= 0 THEN ERROR_OBJECT_ALREADY_EXISTS
    ELSE ERROR_SUCCESS

\* DeleteIpForwardEntry2
WinDeleteCode(table, row) ==
    IF row.InterfaceIndex = 0 /\ row.InterfaceLuid = 0 THEN ERROR_INVALID_PARAMETER
    ELSE IF WinFind(table, row) = 0 THEN ERROR_NOT_FOUND
    ELSE ERROR_SUCCESS


(***************************************************************************)
(* The fan-out: tokio::sync::broadcast::channel::<RouteChange>(16).  The   *)
(* channel keeps the last Capacity values sent; tail counts the values     *)
(* stored, so buf holds positions tail - Len(buf) .. tail - 1, and a       *)
(* receiver is the position it reads next.                                 *)
(***************************************************************************)
Capacity == 16

NewChannel == [tail |-> 0, buf |-> <<>>]

\* Sender::send: with no receiver the value is returned to the caller and
\* nothing is stored; otherwise it takes the slot of the oldest value
send(ch, rx_count, ev) ==
    IF rx_count = 0 THEN ch
    ELSE [tail |-> ch.tail + 1,
          buf |-> (IF Len(ch.buf) = Capacity THEN Tail(ch.buf) ELSE ch.buf) \o <<ev>>]

send_failed(rx_count) == rx_count = 0

Oldest(ch) == ch.tail - Len(ch.buf)

\* a receiver that starts at the oldest value the channel still holds
subscribe_oldest(ch) == Oldest(ch)

\* Sender::subscribe: the new receiver starts at the tail
subscribe(ch) == ch.tail

\* Receiver::recv at position next: Ok, Lagged (the receiver moves to the
\* oldest value held), Closed, or not ready yet
recv(ch, next, closed) ==
    IF next = ch.tail
    THEN IF closed THEN [tag |-> "Closed", next |-> next]
         ELSE [tag |-> "Pending", next |-> next]
    ELSE IF next < Oldest(ch)
    THEN [tag |-> "Lagged", next |-> Oldest(ch), n |-> Oldest(ch) - next]
    ELSE [tag |-> "Ok", next |-> next + 1, ev |-> ch.buf[next - Oldest(ch) + 1]]

\* one turn of the loop of route_listen_stream on what recv answered:
\* Ok yields the event, Closed ends the stream, Lagged goes round again
stream_step(sub, r) ==
    IF r.tag = "Ok"
    THEN [sub EXCEPT !.next = r.next, !.yielded = Append(@, r.ev)]
    ELSE IF r.tag = "Closed" THEN [sub EXCEPT !.state = "ended"]
    ELSE [sub EXCEPT !.next = r.next, !.lagged = @ + r.n]

RouteChange(kind, route) == [kind |-> kind, route |-> route]

(***************************************************************************)
(* What the listener does with one notification: publish an event, skip    *)
(* it, or panic.                                                           *)
(***************************************************************************)
Publish(ev) == [tag |-> "publish", ev |-> ev]
Skip == [tag |-> "skip"]

\* Handle::listen on Linux, one message of the unsolicited stream
linux_listen(n) ==
    IF n.kind \notin {"NewRoute", "DelRoute"} THEN Skip
    ELSE LET r == RouteMessage_into_Route(n.msg)
         IN  IF r = Panicked THEN Panicked
             ELSE Publish(RouteChange(IF n.kind = "NewRoute" THEN "Add" ELSE "Delete", r.v))

\* Handle::listen on macOS, one read of the route socket
mac_listen(n, checks, oob) ==
    IF n.read_err \/ n.read = 0 THEN Panicked
    ELSE IF n.hdr.rtm_type \notin {RTM_ADD, RTM_DELETE, RTM_CHANGE} THEN Skip
    ELSE IF n.read < SIZEOF_rt_msghdr THEN Panicked
    ELSE LET route == message_to_route(n.hdr, SubSeq(n.body, 1, n.read - SIZEOF_rt_msghdr),
                                       checks, oob)
         IN  IF route = Panicked THEN Panicked
             ELSE IF ~route.v.some THEN Skip
             ELSE Publish(RouteChange(
                    IF n.hdr.rtm_type = RTM_ADD THEN "Add"
                    ELSE IF n.hdr.rtm_type = RTM_DELETE THEN "Delete" ELSE "Change",
                    route.v.v))

\* a callback that publishes Add whatever the notification type
win_callback_any(n) ==
    LET route == row_to_route(n.row)
    IN  IF route = Panicked THEN Panicked
        ELSE IF ~route.v.some THEN Skip
        ELSE Publish(RouteChange("Add", route.v.v))

\* the NotifyRouteChange2 callback on Windows
win_callback(n) ==
    LET route == row_to_route(n.row)
    IN  IF route = Panicked THEN Panicked
        ELSE IF ~route.v.some THEN Skip
        ELSE IF n.type = "MibParameterNotification"
        THEN Publish(RouteChange("Change", route.v.v))
        ELSE IF n.type = "MibAddInstance" THEN Publish(RouteChange("Add", route.v.v))
        ELSE IF n.type = "MibDeleteInstance" THEN Publish(RouteChange("Delete", route.v.v))
        ELSE Skip

\* the notifications the three kernels send for a change of the table
LinuxNotification(kind, e) == [kind |-> kind, msg |-> LinuxDumpMessage(e)]

MacNotification(msg) ==
    [hdr |-> msg.hdr, body |-> msg.body, read |-> SIZEOF_rt_msghdr + Len(msg.body),
     read_err |-> FALSE]

WinNotification(type, row) == [type |-> type, row |-> row]


(***************************************************************************)
(* The program state.  One facade call is in progress at a time (`call`);  *)
(* `hist` keeps the last calls that completed, each with the version of    *)
(* the kernel table when it started and when it completed.                 *)
(***************************************************************************)
MaxRequests == 2        \* calls of add/delete issued in one behaviour
MaxCancels == 1         \* add futures dropped in one behaviour
MaxPub == 18            \* table changes made by other processes
MaxPubClose == 2        \* the same, in the specification with fairness
MaxPending == 1         \* notifications waiting for the listener
MaxSubAt == 1           \* events already sent when a stream is created
HistLen == 3

Subscribers == {1, 2}

Idle == [op |-> "idle"]
Cancelled == [tag |-> "cancelled"]

IsOk(res) == res.tag = "returned" /\ res.v.ok
IsErr(res) == res.tag = "returned" /\ ~res.v.ok

NoSub == [state |-> "none", next |-> 0, subAt |-> 0, yielded |-> <<>>, lagged |-> 0]

\* every sender of the channel has been dropped: the Handle's, and the clone
\* the listener task (on Windows the callback context) holds
closed_without_handle == listener \in {"stopped", "panicked", "gone"}

closed == handle = "dropped" /\ listener \in {"stopped", "panicked", "gone"}


\* the routes the calls are made with
R1 == with_ifindex(with_gateway(Route_new(V4(10, 14, 0, 0), 24),
                                Some(V4(192, 1, 2, 1))), Some(9))
R2 == with_gateway(Route_new(V4(10, 14, 0, 0), 24), Some(V4(192, 1, 2, 1)))
R3 == with_ifindex(Route_new(V4(10, 14, 0, 0), 24), Some(9))

Routes == {R1, R2, R3}

\* an installed entry of the Linux and macOS tables
Entry(destination, prefix, gateway, ifindex) ==
    [destination |-> destination, prefix |-> prefix, gateway |-> gateway,
     ifindex |-> Some(ifindex), table |-> 254, metric |-> None, luid |-> None]

MacEntry(destination, prefix, gateway, ifindex, flags) ==
    [destination |-> destination, prefix |-> prefix, gateway |-> gateway,
     ifindex |-> Some(ifindex), table |-> 254, metric |-> None, luid |-> None,
     flags |-> flags]

WinRow(destination, prefix, nexthop, ifindex, metric) ==
    Route_into_Row(with_metric(with_ifindex(with_gateway(
        Route_new(destination, prefix), nexthop), Some(ifindex)), Some(metric)))

\* the tables a machine can start with
InitTable1(o) ==
    IF o = "linux"
    THEN << Entry(V4(192, 168, 1, 0), 24, None, 2),
            Entry(V4(0, 0, 0, 0), 0, Some(V4(192, 168, 1, 1)), 2),
            Entry(V6(0, 0), 0, Some(V6(65152, 1)), 2) >>
    ELSE IF o = "macos"
    THEN << MacEntry(V4(127, 0, 0, 1), 32, Some(V4(127, 0, 0, 1)), 1, {"RTF_UP"}),
            MacEntry(V4(192, 168, 1, 0), 24, None, 4, {"RTF_UP"}),
            MacEntry(V6(0, 0), 0, Some(V6(65152, 1)), 4, {"RTF_UP", "RTF_GATEWAY"}) >>
    ELSE << WinRow(V4(0, 0, 0, 0), 0, None, 7, 5),
            WinRow(V4(0, 0, 0, 0), 0, Some(V4(192, 168, 1, 1)), 3, 25),
            WinRow(V4(0, 0, 0, 0), 0, Some(V4(192, 168, 1, 254)), 4, 25),
            WinRow(V6(0, 0), 0, Some(V6(65152, 1)), 3, 25) >>

InitTable2(o) ==
    IF o = "linux"
    THEN << Entry(V4(192, 168, 1, 0), 24, None, 2),
            Entry(V6(8193, 0), 32, None, 2),
            Entry(V6(0, 0), 0, None, 3),
            Entry(V6(0, 0), 0, Some(V6(65152, 1)), 2) >>
    ELSE IF o = "macos"
    THEN << MacEntry(V4(192, 168, 1, 1), 32, None, 4, {"RTF_UP", "RTF_WASCLONED"}),
            MacEntry(V4(10, 0, 0, 0), 8, None, 4, {"RTF_UP"}),
            MacEntry(V4(0, 0, 0, 0), 0, Some(V4(192, 168, 1, 1)), 4,
                     {"RTF_UP", "RTF_GATEWAY"}) >>
    ELSE << WinRow(V4(192, 168, 1, 0), 24, None, 3, 25),
            WinRow(V6(0, 0), 0, Some(V6(65152, 1)), 3, 30) >>

InitTables(o) == {InitTable1(o), InitTable2(o)}

\* the entry another process adds to and removes from the table
ExtRoute == with_ifindex(with_gateway(Route_new(V4(203, 0, 113, 0), 24),
                                      Some(V4(192, 0, 2, 1))), Some(2))

\* the streams that exist
ActiveSubs == {s \in Subscribers : subs[s].state = "active"}

rx_count == Cardinality(ActiveSubs)

\* a call has completed: it enters the history
Completed(h) ==
    hist' = IF Len(hist) < HistLen THEN Append(hist, h) ELSE Append(Tail(hist), h)

\* seen: the streams that existed when the call was made
Record(op, route, res, v0, v1) ==
    [op |-> op, route |-> route, res |-> res, v0 |-> v0, v1 |-> v1,
     seen |-> IF call = Idle THEN ActiveSubs ELSE call.seen]

\* the listener's queue takes a notification while the listener owns its socket
Notify(q, n) == IF listener \in {"running", "aborting"} THEN Append(q, n) ELSE q

\* an input of a backend function called on its own: a record of a dump,
\* the answers of sysctl, or a return code of the kernel
Probe(fn, shape, rec, prefix, sysctl, code) ==
    [fn |-> fn, shape |-> shape, rec |-> rec, prefix |-> prefix, sysctl |-> sysctl,
     code |-> code]

NoRecord == MacDumpRecord(MacEntry(V4(0, 0, 0, 0), 0, None, 0, {}))

NoProbe ==
    /\ fn_arg = Probe("none", "none", NoRecord, 0, <<>>, 0)
    /\ fn_ret = NotCalled

\* the heap address of `Box::new(tx.clone())`
BoxAddr == 100

\* Handle::new on Windows: the Sender is boxed, the address of the box is
\* the context NotifyRouteChange2 registers, the Box goes into the Handle
Registered == [handle_at |-> 0, box_at |-> BoxAddr, box_live |-> TRUE, context |-> BoxAddr]

\* the callback may dereference its context
ContextValid(m) == m.box_live /\ m.box_at = m.context

\* the state Handle::new leaves
Constructed ==
    /\ os \in {"linux", "macos", "windows"}
    /\ overflow_checks \in BOOLEAN
    /\ rib \in InitTables(os)
    /\ ver = 0
    /\ nreq = 0
    /\ ncancel = 0
    /\ call = Idle
    /\ hist = <<>>
    /\ nl_queue = <<>>
    /\ nl_reply = <<>>
    /\ sock = <<>>
    /\ lq = <<>>
    /\ listener = "running"
    /\ handle = "alive"
    /\ mem = Registered
    /\ chan = NewChannel
    /\ published = <<>>
    /\ subs = [s \in Subscribers |-> NoSub]

Init ==
    /\ Constructed
    /\ budget = 0
    /\ mask_route = Route_new(V4(10, 10, 0, 0), 32)
    /\ mask_result = NotCalled
    /\ NoProbe

fanVars == <<lq, listener, handle, chan, published, subs>>
cfgVars == <<os, overflow_checks, budget>>
nlVars == <<nl_queue, nl_reply>>

(***************************************************************************)
(* Linux.  Every request goes to the connection task (spawned in           *)
(* Handle::new) with a sequence number of its own; the task hands a reply  *)
(* to the request that carries its sequence number, if that request is     *)
(* still waiting, and drops it otherwise.  Sequence numbers are kept       *)
(* distinct among the requests in flight.                                  *)
(***************************************************************************)
FreshSeq ==
    CHOOSE n \in 1..(MaxCancels + 2) : \A i \in 1..Len(nl_queue) : nl_queue[i].seq /= n

NlRequest(seq, kind, msg, fam) == [seq |-> seq, kind |-> kind, msg |-> msg, fam |-> fam]

NlReply(errno, msgs) == [errno |-> errno, msgs |-> msgs]

Pending(c, op, pc) == c.op = op /\ c.pc = pc

\* a connection that hands every reply to whichever request is waiting
nl_demux_any(c, seq) == c /= Idle

\* the connection's routing of a reply: to the request with its sequence number
nl_demux(c, seq) == c /= Idle /\ c.seq = seq

NewCall(op, route, pc, seq) ==
    [op |-> op, route |-> route, pc |-> pc, seq |-> seq, v0 |-> ver, acc |-> <<>>,
     seen |-> ActiveSubs]

\* the kernel and the connection task take one request off the socket
NlProcess ==
    /\ os = "linux" /\ handle = "alive" /\ nl_queue /= <<>>
    /\ LET q == Head(nl_queue)
           deliver(reply) ==
               nl_reply' = IF nl_demux(call, q.seq) THEN Append(nl_reply, reply)
                           ELSE nl_reply
       IN  /\ nl_queue' = Tail(nl_queue)
           /\ IF q.kind = "dump"
              THEN /\ deliver(NlReply(0, LinuxDump(rib, q.fam)))
                   /\ UNCHANGED <<rib, ver, lq>>
              ELSE IF q.kind = "new"
              THEN LET errno == LinuxNewRouteErrno(rib, q.msg)
                       e == LinuxRequestedEntry(q.msg)
                   IN  /\ deliver(NlReply(errno, <<>>))
                       /\ IF errno = 0
                          THEN /\ rib' = Append(rib, e)
                               /\ ver' = ver + 1
                               /\ lq' = Notify(lq, LinuxNotification("NewRoute", e))
                          ELSE UNCHANGED <<rib, ver, lq>>
              ELSE LET pos == LinuxDelRoutePos(rib, q.msg)
                   IN  /\ deliver(NlReply(IF pos = 0 THEN ESRCH ELSE 0, <<>>))
                       /\ IF pos /= 0
                          THEN /\ rib' = RemoveAt(rib, pos)
                               /\ ver' = ver + 1
                               /\ lq' = Notify(lq, LinuxNotification("DelRoute", rib[pos]))
                          ELSE UNCHANGED <<rib, ver, lq>>
    /\ UNCHANGED <<cfgVars, maskVars, mem, nreq, ncancel, call, hist, sock,
                   listener, handle, chan, published, subs>>

\* Handle::add up to its await
LinuxAdd(route) ==
    /\ os = "linux" /\ handle = "alive" /\ call = Idle /\ nreq < MaxRequests
    /\ nreq' = nreq + 1
    /\ LET req == LinuxAddRequest(route)
       IN  IF req.ok
           THEN /\ call' = NewCall("add", Some(route), "await", FreshSeq)
                /\ nl_queue' = Append(nl_queue, NlRequest(FreshSeq, "new", req.v, "none"))
                /\ UNCHANGED hist
           ELSE /\ Completed(Record("add", Some(route), Returned(req), ver, ver))
                /\ UNCHANGED <<call, nl_queue>>
    /\ UNCHANGED <<cfgVars, maskVars, mem, rib, ver, ncancel, nl_reply, sock, fanVars>>

\* Handle::add from the reply on
LinuxAddReturn ==
    /\ os = "linux" /\ Pending(call, "add", "await") /\ nl_reply /= <<>>
    /\ LET reply == Head(nl_reply)
       IN  Completed(Record("add", call.route,
                            Returned(IF reply.errno = 0 THEN Ok(Unit)
                                     ELSE LinuxMapErr(reply.errno)),
                            call.v0, ver))
    /\ call' = Idle
    /\ nl_reply' = <<>>
    /\ UNCHANGED <<cfgVars, maskVars, mem, rib, ver, nreq, ncancel, nl_queue, sock, fanVars>>

\* every message of a dump converted: Panicked if one conversion panics
RECURSIVE IntoRoutes(_, _)
IntoRoutes(msgs, acc) ==
    IF msgs = <<>> THEN Returned(acc)
    ELSE LET r == RouteMessage_into_Route(Head(msgs))
         IN  IF r = Panicked THEN Panicked
             ELSE IntoRoutes(Tail(msgs), Append(acc, r.v))

\* Handle::list up to its first await
LinuxList ==
    /\ os = "linux" /\ handle = "alive" /\ call = Idle
    /\ call' = NewCall("list", None, "v4", FreshSeq)
    /\ nl_queue' = Append(nl_queue, NlRequest(FreshSeq, "dump", <<>>, "V4"))
    /\ UNCHANGED <<cfgVars, maskVars, mem, rib, ver, nreq, ncancel, hist, nl_reply, sock, fanVars>>

\* Handle::list on the end of a dump: on to the IPv6 dump, or return
LinuxListStep ==
    /\ os = "linux" /\ call /= Idle /\ call.op = "list" /\ nl_reply /= <<>>
    /\ LET reply == Head(nl_reply)
           routes == IntoRoutes(reply.msgs, call.acc)
           done(res) == /\ Completed(Record("list", None, res, call.v0, ver))
                        /\ call' = Idle
                        /\ UNCHANGED nl_queue
       IN  IF reply.errno /= 0 THEN done(Returned(LinuxMapErr(reply.errno)))
           ELSE IF routes = Panicked THEN done(Panicked)
           ELSE IF call.pc = "v4"
           THEN /\ call' = [call EXCEPT !.pc = "v6", !.seq = FreshSeq, !.acc = routes.v]
                /\ nl_queue' = Append(nl_queue, NlRequest(FreshSeq, "dump", <<>>, "V6"))
                /\ UNCHANGED hist
           ELSE done(Returned(Ok(routes.v)))
    /\ nl_reply' = <<>>
    /\ UNCHANGED <<cfgVars, maskVars, mem, rib, ver, nreq, ncancel, sock, fanVars>>

\* Handle::default_route up to its first await
LinuxDefault ==
    /\ os = "linux" /\ handle = "alive" /\ call = Idle
    /\ call' = NewCall("default_route", None, "v4", FreshSeq)
    /\ nl_queue' = Append(nl_queue, NlRequest(FreshSeq, "dump", <<>>, "V4"))
    /\ UNCHANGED <<cfgVars, maskVars, mem, rib, ver, nreq, ncancel, hist, nl_reply, sock, fanVars>>

\* Handle::default_route on a dump: the first default of it, or the next dump
LinuxDefaultStep ==
    /\ os = "linux" /\ call /= Idle /\ call.op = "default_route" /\ nl_reply /= <<>>
    /\ LET reply == Head(nl_reply)
           found == LinuxDefaultScan(reply.msgs)
           done(res) == /\ Completed(Record("default_route", None, res, call.v0, ver))
                        /\ call' = Idle
                        /\ UNCHANGED nl_queue
       IN  IF reply.errno /= 0 THEN done(Returned(LinuxMapErr(reply.errno)))
           ELSE IF found.some THEN done(Returned(Ok(found)))
           ELSE IF call.pc = "v4"
           THEN /\ call' = [call EXCEPT !.pc = "v6", !.seq = FreshSeq]
                /\ nl_queue' = Append(nl_queue, NlRequest(FreshSeq, "dump", <<>>, "V6"))
                /\ UNCHANGED hist
           ELSE done(Returned(Ok(None)))
    /\ nl_reply' = <<>>
    /\ UNCHANGED <<cfgVars, maskVars, mem, rib, ver, nreq, ncancel, sock, fanVars>>

\* Handle::delete up to its first await: the dump of the route's family
LinuxDelete(route) ==
    /\ os = "linux" /\ handle = "alive" /\ call = Idle /\ nreq < MaxRequests
    /\ nreq' = nreq + 1
    /\ call' = NewCall("delete", Some(route), "scan", FreshSeq)
    /\ nl_queue' = Append(nl_queue,
                          NlRequest(FreshSeq, "dump", <<>>, route.destination.fam))
    /\ UNCHANGED <<cfgVars, maskVars, mem, rib, ver, ncancel, hist, nl_reply, sock, fanVars>>

\* Handle::delete on the dump, and on the reply to its RTM_DELROUTE
LinuxDeleteStep ==
    /\ os = "linux" /\ call /= Idle /\ call.op = "delete" /\ nl_reply /= <<>>
    /\ LET reply == Head(nl_reply)
           found == LinuxDeleteScan(reply.msgs, call.route.v)
           done(res) == /\ Completed(Record("delete", call.route, res, call.v0, ver))
                        /\ call' = Idle
                        /\ UNCHANGED nl_queue
       IN  IF reply.errno /= 0 THEN done(Returned(LinuxMapErr(reply.errno)))
           ELSE IF call.pc = "del" THEN done(Returned(Ok(Unit)))
           ELSE IF found.some
           THEN /\ call' = [call EXCEPT !.pc = "del", !.seq = FreshSeq]
                /\ nl_queue' = Append(nl_queue, NlRequest(FreshSeq, "del", found.v, "none"))
                /\ UNCHANGED hist
           ELSE done(Returned(Err("NotFound", 0)))
    /\ nl_reply' = <<>>
    /\ UNCHANGED <<cfgVars, maskVars, mem, rib, ver, nreq, ncancel, sock, fanVars>>

\* the future of add is dropped while it waits: for the reply of the
\* connection (Linux), for the route socket to be readable (macOS)
CancelAdd ==
    /\ call /= Idle /\ call.op = "add" /\ call.pc /= "write" /\ ncancel < MaxCancels
    /\ ncancel' = ncancel + 1
    /\ Completed(Record("add", call.route, Cancelled, call.v0, ver))
    /\ call' = Idle
    /\ nl_reply' = <<>>
    /\ sock' = <<>>
    /\ UNCHANGED <<cfgVars, maskVars, mem, rib, ver, nreq, nl_queue, fanVars>>

(***************************************************************************)
(* macOS.  add and delete open a route socket of their own, write the      *)
(* request and read one message back.  The kernel sends a request back,    *)
(* with rtm_errno set, to every route socket, and a request it refuses     *)
(* fails the write(2) that carried it with the same errno (route_output    *)
(* returns the error to the sender; route(8) reports "not in table" and    *)
(* "File exists" from the write).                                          *)
(***************************************************************************)
\* the request names a gateway address of another family than its destination
MacGatewayMismatch(req) ==
    LET e == MacRequestedEntry(req)
    IN  req.hdr.rtm_type = RTM_ADD /\ e.gateway.some
        /\ e.gateway.v.fam /= e.destination.fam

\* what the kernel may answer to a request: 0 when it has no objection of its
\* own; for a gateway of another family it may also refuse with EINVAL (22)
\* or ENETUNREACH (51), the code leaving that decision to the kernel
MacVerdicts(req) == IF MacGatewayMismatch(req) THEN {0, 22, 51} ELSE {0}

\* route_output: the table after the request, and the message sent back
MacKernelOutput(table, req, pos, verdict) ==
    LET e == MacRequestedEntry(req)
        found == MacFind(table, e)
        add == req.hdr.rtm_type = RTM_ADD
        errno == IF verdict /= 0 THEN verdict
                 ELSE IF add THEN (IF found /= 0 THEN EEXIST ELSE 0)
                 ELSE (IF found = 0 THEN ESRCH ELSE 0)
    IN  [table |-> IF errno /= 0 THEN table
                   ELSE IF add THEN InsertAt(table, pos, e)
                   ELSE RemoveAt(table, found),
         errno |-> errno,
         reply |-> [hdr |-> [req.hdr EXCEPT
                                !.rtm_errno = errno,
                                !.rtm_flags = IF errno = 0 THEN @ \cup {"RTF_DONE"} ELSE @],
                    body |-> req.body]]

\* `f.write_all(slice).await?` on a write the kernel refused: the io::Error
\* of the errno, whose kind is std's for that errno (EEXIST AlreadyExists,
\* EINVAL InvalidInput, ENETUNREACH NetworkUnreachable; ESRCH has none)
mac_write_error(errno) == os_error(errno)

\* add_or_del_route from the read on
mac_reply_result(msg) ==
    IF SIZEOF_rt_msghdr + Len(msg.body) < SIZEOF_rt_msghdr
    THEN Returned(Err("Other", 0))
    ELSE IF msg.hdr.rtm_version /= RTM_VERSION THEN Panicked
    ELSE IF msg.hdr.rtm_errno /= 0 THEN Returned(mac_code_to_error(msg.hdr.rtm_errno))
    ELSE Returned(Ok(Unit))

\* the request Handle::add / Handle::delete has add_or_del_route build
MacRequestOf(op, route, m) ==
    IF op = "add"
    THEN mac_request(route.destination, m, route.gateway, route.ifindex, TRUE)
    ELSE mac_request(route.destination, m, None, None, FALSE)

\* Handle::add / Handle::delete up to the write: the mask is computed, the
\* request is built and the route socket of the call is opened; from here on
\* the kernel queues on it every routing message it sends
MacOpen(op, route) ==
    /\ nreq' = nreq + 1
    /\ IF mask(route, overflow_checks) = Panicked
       THEN /\ Completed(Record(op, Some(route), Panicked, ver, ver))
            /\ UNCHANGED call
       ELSE /\ call' = NewCall(op, Some(route), "write", 0)
            /\ UNCHANGED hist
    /\ sock' = <<>>
    /\ UNCHANGED <<cfgVars, maskVars, mem, rib, ver, ncancel, nlVars, lq, listener, handle,
                   chan, published, subs>>

MacAdd(route) ==
    /\ os = "macos" /\ handle = "alive" /\ call = Idle /\ nreq < MaxRequests
    /\ MacOpen("add", route)

MacDelete(route) ==
    /\ os = "macos" /\ handle = "alive" /\ call = Idle /\ nreq < MaxRequests
    /\ MacOpen("delete", route)

\* `f.write_all(slice).await?`: the kernel acts on the request and queues its
\* answer on every route socket, this one included, behind what the socket
\* already holds; a refused write returns its error at once.  acc keeps the
\* place of the answer in the queue of the socket.
MacWrite ==
    /\ os = "macos" /\ call /= Idle /\ call.pc = "write"
    /\ LET route == call.route.v
           req == MacRequestOf(call.op, route, mask(route, overflow_checks).v)
       IN  \E verdict \in MacVerdicts(req) :
             LET out == MacKernelOutput(rib, req, Len(rib), verdict)
             IN  /\ rib' = out.table
                 /\ lq' = Notify(lq, MacNotification(out.reply))
                 /\ IF out.errno = 0
                    THEN /\ ver' = ver + 1
                         /\ sock' = Append(sock, out.reply)
                         /\ call' = [call EXCEPT !.pc = "read", !.acc = <<Len(sock) + 1>>]
                         /\ UNCHANGED hist
                    ELSE /\ Completed(Record(call.op, call.route,
                                             Returned(mac_write_error(out.errno)),
                                             call.v0, ver))
                         /\ call' = Idle
                         /\ sock' = <<>>
                         /\ UNCHANGED ver
    /\ UNCHANGED <<cfgVars, maskVars, mem, nreq, ncancel, nlVars, listener, handle, chan,
                   published, subs>>

\* Handle::add / Handle::delete from the read on: the first message the
\* socket holds
MacRead ==
    /\ os = "macos" /\ call /= Idle /\ call.pc = "read" /\ sock /= <<>>
    /\ Completed(Record(call.op, call.route, mac_reply_result(Head(sock)), call.v0, ver))
    /\ call' = Idle
    /\ sock' = <<>>
    /\ UNCHANGED <<cfgVars, maskVars, mem, rib, ver, nreq, ncancel, nlVars, fanVars>>

\* Handle::list: the sysctl dump, decoded.  A read past the end of a record
\* meets whatever byte lies there.
MacList ==
    /\ os = "macos" /\ handle = "alive" /\ call = Idle
    /\ \E oob \in {0, 255} :
         Completed(Record("list", None, list_routes(rib, overflow_checks, oob), ver, ver))
    /\ UNCHANGED <<cfgVars, maskVars, mem, rib, ver, nreq, ncancel, call, nlVars, sock, fanVars>>

mac_default_route(listed) ==
    IF listed = Panicked THEN Panicked
    ELSE IF ~listed.v.ok THEN listed
    ELSE Returned(Ok(first_default(listed.v.v)))

\* Handle::default_route
MacDefault ==
    /\ os = "macos" /\ handle = "alive" /\ call = Idle
    /\ \E oob \in {0, 255} :
         Completed(Record("default_route", None,
                          mac_default_route(list_routes(rib, overflow_checks, oob)),
                          ver, ver))
    /\ UNCHANGED <<cfgVars, maskVars, mem, rib, ver, nreq, ncancel, call, nlVars, sock, fanVars>>

(***************************************************************************)
(* Windows.  Every call is one IP Helper call; none of them suspends.      *)
(***************************************************************************)
WinAdd(route) ==
    /\ os = "windows" /\ handle = "alive" /\ call = Idle /\ nreq < MaxRequests
    /\ nreq' = nreq + 1
    /\ LET row == Route_into_Row(route)
           err == WinCreateCode(rib, row)
       IN  IF err /= ERROR_SUCCESS
           THEN /\ Completed(Record("add", Some(route), Returned(win_code_to_error(err)),
                                    ver, ver))
                /\ UNCHANGED <<rib, ver, lq>>
           ELSE /\ rib' = Append(rib, row)
                /\ ver' = ver + 1
                /\ lq' = Notify(lq, WinNotification("MibAddInstance", row))
                /\ Completed(Record("add", Some(route), Returned(Ok(Unit)), ver, ver + 1))
    /\ UNCHANGED <<cfgVars, maskVars, mem, ncancel, call, nlVars, sock, listener, handle,
                   chan, published, subs>>

WinDelete(route) ==
    /\ os = "windows" /\ handle = "alive" /\ call = Idle /\ nreq < MaxRequests
    /\ nreq' = nreq + 1
    /\ LET row == Route_into_Row(route)
           err == WinDeleteCode(rib, row)
           pos == WinFind(rib, row)
       IN  IF err /= ERROR_SUCCESS
           THEN /\ Completed(Record("delete", Some(route),
                                    Returned(win_code_to_error(err)), ver, ver))
                /\ UNCHANGED <<rib, ver, lq>>
           ELSE /\ rib' = RemoveAt(rib, pos)
                /\ ver' = ver + 1
                /\ lq' = Notify(lq, WinNotification("MibDeleteInstance", rib[pos]))
                /\ Completed(Record("delete", Some(route), Returned(Ok(Unit)),
                                    ver, ver + 1))
    /\ UNCHANGED <<cfgVars, maskVars, mem, ncancel, call, nlVars, sock, listener, handle,
                   chan, published, subs>>

WinList ==
    /\ os = "windows" /\ handle = "alive" /\ call = Idle
    /\ Completed(Record("list", None, win_list(rib), ver, ver))
    /\ UNCHANGED <<cfgVars, maskVars, mem, rib, ver, nreq, ncancel, call, nlVars, sock, fanVars>>

win_default(listed) ==
    IF listed = Panicked THEN Panicked
    ELSE IF ~listed.v.ok THEN listed
    ELSE Returned(Ok(win_default_route(listed.v.v)))

WinDefault ==
    /\ os = "windows" /\ handle = "alive" /\ call = Idle
    /\ Completed(Record("default_route", None, win_default(win_list(rib)), ver, ver))
    /\ UNCHANGED <<cfgVars, maskVars, mem, rib, ver, nreq, ncancel, call, nlVars, sock, fanVars>>

(***************************************************************************)
(* The listener and the streams.                                           *)
(***************************************************************************)
\* a listener that unwraps what send answered
after_send_unwrap(l, failed) == IF failed THEN "panicked" ELSE l

\* `_ = tx.send(..)`: the listener goes on whatever send answered
after_send(l, failed) == l

Event(id, change) == [id |-> id, change |-> change]

\* Handle::listen (the callback on Windows) takes one notification
Listen ==
    /\ listener \in {"running", "aborting"} /\ lq /= <<>>
    /\ lq' = Tail(lq)
    /\ \E oob \in {0, 255} :
       LET n == Head(lq)
           out == IF os = "linux" THEN linux_listen(n)
                  ELSE IF os = "macos" THEN mac_listen(n, overflow_checks, oob)
                  ELSE win_callback(n)
       IN  IF out = Panicked
           THEN /\ listener' = "panicked"
                /\ UNCHANGED <<chan, published>>
           ELSE IF out = Skip
           THEN UNCHANGED <<listener, chan, published>>
           ELSE LET ev == Event(Len(published) + 1, out.ev)
                IN  /\ published' = Append(published, ev)
                    /\ chan' = send(chan, rx_count, ev)
                    /\ listener' = after_send(listener, send_failed(rx_count))
    /\ UNCHANGED <<cfgVars, maskVars, mem, rib, ver, nreq, ncancel, call, hist, nlVars, sock,
                   handle, subs>>

\* Handle::route_listen_stream: a new receiver and the stream around it
Subscribe(s) ==
    /\ handle = "alive" /\ subs[s].state = "none" /\ Len(published) <= MaxSubAt
    /\ subs' = [subs EXCEPT ![s] = [state |-> "active", next |-> subscribe(chan),
                                   subAt |-> Len(published), yielded |-> <<>>,
                                   lagged |-> 0]]
    /\ UNCHANGED <<cfgVars, maskVars, mem, rib, ver, nreq, ncancel, call, hist, nlVars, sock,
                   lq, listener, handle, chan, published>>

\* the stream is polled and recv has something to answer
Poll(s) ==
    /\ subs[s].state = "active"
    /\ LET r == recv(chan, subs[s].next, closed)
       IN  /\ r.tag /= "Pending"
           /\ subs' = [subs EXCEPT ![s] = stream_step(@, r)]
    /\ UNCHANGED <<cfgVars, maskVars, mem, rib, ver, nreq, ncancel, call, hist, nlVars, sock,
                   lq, listener, handle, chan, published>>

\* another process adds its route to the table, or removes it
ExternalChange ==
    /\ budget > 0 /\ Len(lq) < MaxPending
    /\ listener \in {"running", "aborting", "calling"}
    /\ budget' = budget - 1
    /\ ver' = ver + 1
    /\ IF os = "linux"
       THEN LET e == LinuxRequestedEntry(LinuxAddRequest(ExtRoute).v)
                pos == LinuxDelRoutePos(rib, LinuxDumpMessage(e))
            IN  IF pos = 0
                THEN /\ rib' = Append(rib, e)
                     /\ lq' = Notify(lq, LinuxNotification("NewRoute", e))
                ELSE /\ rib' = RemoveAt(rib, pos)
                     /\ lq' = Notify(lq, LinuxNotification("DelRoute", e))
       ELSE IF os = "macos"
       THEN LET m == mask(ExtRoute, FALSE).v
                present == MacFind(rib, MacRequestedEntry(
                               mac_request(ExtRoute.destination, m, None, None, FALSE))) /= 0
                req == mac_request(ExtRoute.destination, m,
                                   IF present THEN None ELSE ExtRoute.gateway,
                                   None, ~present)
                out == MacKernelOutput(rib, req, Len(rib), 0)
            IN  /\ rib' = out.table
                /\ lq' = Notify(lq, MacNotification(out.reply))
                /\ sock' = IF call /= Idle THEN Append(sock, out.reply) ELSE sock
       ELSE LET row == Route_into_Row(ExtRoute)
                pos == WinFind(rib, row)
            IN  IF pos = 0
                THEN /\ rib' = Append(rib, row)
                     /\ lq' = Notify(lq, WinNotification("MibAddInstance", row))
                ELSE /\ rib' = RemoveAt(rib, pos)
                     /\ lq' = Notify(lq, WinNotification("MibDeleteInstance", row))
    /\ os /= "macos" => sock' = sock
    /\ UNCHANGED <<os, overflow_checks, maskVars, mem, nreq, ncancel, call, hist, nlVars,
                   listener, handle, chan, published, subs>>

\* a route the table never holds, which another process asks to delete
AbsentRoute == Route_new(V4(198, 51, 100, 0), 24)

\* macOS: the kernel refuses the request of another process and sends it
\* back, rtm_errno set, to every route socket
ExternalRefused ==
    /\ os = "macos" /\ budget > 0 /\ Len(lq) < MaxPending
    /\ listener \in {"running", "aborting"}
    /\ budget' = budget - 1
    /\ LET req == mac_request(AbsentRoute.destination, mask(AbsentRoute, FALSE).v,
                              None, None, FALSE)
           out == MacKernelOutput(rib, req, Len(rib), 0)
       IN  /\ lq' = Notify(lq, MacNotification(out.reply))
           /\ sock' = IF call /= Idle THEN Append(sock, out.reply) ELSE sock
    /\ UNCHANGED <<os, overflow_checks, maskVars, mem, rib, ver, nreq, ncancel, call, hist,
                   nlVars, listener, handle, chan, published, subs>>

\* the listener task ends by itself: the connection's message stream ends
\* (Linux), a read of the route socket fails (macOS)
ListenerStop ==
    /\ os \in {"linux", "macos"} /\ listener = "running"
    /\ listener' = "stopped"
    /\ lq' = <<>>
    /\ UNCHANGED <<cfgVars, maskVars, mem, rib, ver, nreq, ncancel, call, hist, nlVars, sock,
                   handle, chan, published, subs>>

\* impl Drop for Handle: the tasks are aborted (Linux, macOS), the
\* notification is cancelled (Windows); the Handle's senders go with it
DropHandle ==
    /\ handle = "alive" /\ call = Idle
    /\ handle' = "dropped"
    /\ listener' = IF listener /= "running" THEN listener
                   ELSE IF os = "windows" THEN "gone" ELSE "aborting"
    /\ lq' = IF os = "windows" THEN <<>> ELSE lq
    /\ mem' = IF os = "windows" THEN [mem EXCEPT !.box_live = FALSE] ELSE mem
    /\ UNCHANGED <<cfgVars, maskVars, rib, ver, nreq, ncancel, call, hist, nlVars, sock,
                   chan, published, subs>>

MaxMoves == 2           \* moves of the Handle

\* a Sender held in the Handle itself would move with the Handle
sender_inline(m, to) == to

\* `_tx: Box<broadcast::Sender<RouteChange>>`: a move of the Handle copies
\* the Box, the Sender stays where Box::new put it
sender_after_move(m, to) == m.box_at

\* the Handle is moved: out of Handle::new, into the facade, into a task
MoveHandle ==
    /\ os = "windows" /\ handle = "alive" /\ mem.handle_at < MaxMoves
    /\ mem' = [mem EXCEPT !.handle_at = @ + 1,
                          !.box_at = sender_after_move(mem, mem.handle_at + 1)]
    /\ UNCHANGED <<cfgVars, maskVars, rib, ver, nreq, ncancel, call, hist, nlVars, sock,
                   fanVars>>

\* Windows calls the callback on a thread of its own:
\* `let tx = &*(callercontext as *const broadcast::Sender<RouteChange>)`
CallbackEnter ==
    /\ os = "windows" /\ handle = "alive" /\ listener = "running" /\ lq /= <<>>
    /\ listener' = "calling"
    /\ UNCHANGED <<cfgVars, maskVars, mem, rib, ver, nreq, ncancel, call, hist, nlVars,
                   sock, lq, handle, chan, published, subs>>

\* the rest of the callback: row_to_route, tx.send, return.  A Sender that
\* is no longer behind the context is undefined behaviour: the send may
\* seem to work, or the process dies.
CallbackReturn ==
    /\ os = "windows" /\ listener = "calling"
    /\ lq' = Tail(lq)
    /\ \E out \in (IF ContextValid(mem) THEN {win_callback(Head(lq))}
                   ELSE {win_callback(Head(lq)), Panicked}) :
         IF out = Panicked
         THEN /\ listener' = "panicked"
              /\ UNCHANGED <<chan, published>>
         ELSE IF out = Skip
         THEN /\ listener' = "running"
              /\ UNCHANGED <<chan, published>>
         ELSE LET ev == Event(Len(published) + 1, out.ev)
              IN  /\ published' = Append(published, ev)
                  /\ chan' = send(chan, rx_count, ev)
                  /\ listener' = "running"
    /\ UNCHANGED <<cfgVars, maskVars, mem, rib, ver, nreq, ncancel, call, hist, nlVars,
                   sock, handle, subs>>

\* impl Drop for Handle on Windows, first half: CancelMibChangeNotify2 is
\* called; no callback begins from here on
DropBegin ==
    /\ os = "windows" /\ handle = "alive" /\ call = Idle
    /\ handle' = "dropping"
    /\ UNCHANGED <<cfgVars, maskVars, mem, rib, ver, nreq, ncancel, call, hist, nlVars,
                   sock, lq, listener, chan, published, subs>>

\* second half: CancelMibChangeNotify2, which waits for a callback in
\* progress, returns; drop returns and the fields are dropped, the Box freed
DropEnd ==
    /\ os = "windows" /\ handle = "dropping" /\ listener /= "calling"
    /\ handle' = "dropped"
    /\ listener' = IF listener = "running" THEN "gone" ELSE listener
    /\ lq' = <<>>
    /\ mem' = [mem EXCEPT !.box_live = FALSE]
    /\ UNCHANGED <<cfgVars, maskVars, rib, ver, nreq, ncancel, call, hist, nlVars, sock,
                   chan, published, subs>>

\* the aborted listener task reaches its next await and is dropped
TaskAborted ==
    /\ listener = "aborting"
    /\ listener' = "gone"
    /\ lq' = <<>>
    /\ UNCHANGED <<cfgVars, maskVars, mem, rib, ver, nreq, ncancel, call, hist, nlVars, sock,
                   handle, chan, published, subs>>

(***************************************************************************)
(* The specifications.                                                     *)
(***************************************************************************)
Next ==
    \/ \E r \in Routes : LinuxAdd(r)
    \/ LinuxAddReturn
    \/ \E r \in Routes : LinuxDelete(r)
    \/ LinuxDeleteStep
    \/ LinuxList
    \/ LinuxListStep
    \/ LinuxDefault
    \/ LinuxDefaultStep
    \/ NlProcess
    \/ CancelAdd
    \/ \E r \in Routes : MacAdd(r)
    \/ \E r \in Routes : MacDelete(r)
    \/ MacWrite
    \/ MacRead
    \/ MacList
    \/ MacDefault
    \/ \E r \in Routes : WinAdd(r)
    \/ \E r \in Routes : WinDelete(r)
    \/ WinList
    \/ WinDefault

\* the calls that change the table, the listener and one stream
NotifyNext ==
    \/ \E r \in Routes : LinuxAdd(r)
    \/ LinuxAddReturn
    \/ \E r \in Routes : LinuxDelete(r)
    \/ LinuxDeleteStep
    \/ NlProcess
    \/ \E r \in Routes : MacAdd(r)
    \/ \E r \in Routes : MacDelete(r)
    \/ MacWrite
    \/ MacRead
    \/ \E r \in Routes : WinAdd(r)
    \/ \E r \in Routes : WinDelete(r)
    \/ Listen
    \/ Subscribe(1)
    \/ Poll(1)

vars == <<os, overflow_checks, mem, mask_route, mask_result, fn_arg, fn_ret, rib, ver, budget, nreq, ncancel,
          call, hist, nl_queue, nl_reply, sock, lq, listener, handle, chan, published,
          subs>>

Spec == Init /\ [][Next]_vars

FanoutNext ==
    \/ ExternalChange
    \/ Listen
    \/ \E s \in Subscribers : Subscribe(s)
    \/ \E s \in Subscribers : Poll(s)
    \/ ListenerStop
    \/ DropHandle
    \/ TaskAborted

FanoutInit ==
    /\ Constructed
    /\ overflow_checks
    /\ rib = InitTable1(os)
    /\ budget = MaxPub
    /\ mask_route = Route_new(V4(10, 10, 0, 0), 32)
    /\ mask_result = NotCalled
    /\ NoProbe

SpecNotify == Init /\ [][NotifyNext]_vars

SpecFanout == FanoutInit /\ [][FanoutNext]_vars

CloseInit ==
    /\ Constructed
    /\ overflow_checks
    /\ rib = InitTable1(os)
    /\ budget = MaxPubClose
    /\ mask_route = Route_new(V4(10, 10, 0, 0), 32)
    /\ mask_result = NotCalled
    /\ NoProbe

\* the runtime polls a stream that is being consumed and drops an aborted task
SpecClose ==
    /\ CloseInit /\ [][FanoutNext]_vars
    /\ \A s \in Subscribers : WF_vars(Poll(s))
    /\ WF_vars(TaskAborted)

(***************************************************************************)
(* The argument specification: add called with routes whose gateway,       *)
(* source or source hint is of another family than the destination, with   *)
(* routes that name neither a gateway nor an interface, and with a route   *)
(* that names both; the listener runs.                                     *)
(***************************************************************************)
\* a Route whose source and source_prefix, or source_hint, are set
with_source(r, src, src_prefix) == ("source" :> Some(src)) @@ ("source_prefix" :> src_prefix) @@ r
with_source_hint(r, hint) == ("source_hint" :> Some(hint)) @@ r

ArgRoutes ==
    { R1,
      with_gateway(Route_new(V4(10, 14, 0, 0), 24), Some(V6(65152, 1))),
      with_gateway(Route_new(V6(8193, 0), 32), Some(V4(192, 1, 2, 1))),
      with_source_hint(R1, V4(192, 1, 2, 7)),
      with_source_hint(R1, V6(8193, 7)),
      with_source(R1, V6(8193, 0), 32),
      with_source_hint(with_ifindex(Route_new(V6(8193, 0), 32), Some(9)), V4(192, 1, 2, 7)),
      with_source(with_ifindex(Route_new(V6(8193, 0), 32), Some(9)), V4(192, 1, 2, 0), 24),
      Route_new(V4(10, 14, 0, 0), 24),
      Route_new(V6(8193, 0), 32) }

ArgsNext ==
    \/ \E r \in ArgRoutes : LinuxAdd(r)
    \/ LinuxAddReturn
    \/ NlProcess
    \/ \E r \in ArgRoutes : MacAdd(r)
    \/ MacWrite
    \/ MacRead
    \/ \E r \in ArgRoutes : WinAdd(r)
    \/ Listen

SpecArgs == Init /\ [][ArgsNext]_vars

(***************************************************************************)
(* The reply specification: macOS add and delete while another process     *)
(* changes the table and has requests of its own refused.                  *)
(***************************************************************************)
MaxForeign == 2         \* routing messages caused by the other process

ReplyInit ==
    /\ Constructed
    /\ os = "macos"
    /\ overflow_checks
    /\ rib = InitTable1(os)
    /\ budget = MaxForeign
    /\ mask_route = Route_new(V4(10, 10, 0, 0), 32)
    /\ mask_result = NotCalled
    /\ NoProbe

ReplyNext ==
    \/ \E r \in Routes : MacAdd(r)
    \/ \E r \in Routes : MacDelete(r)
    \/ MacWrite
    \/ MacRead
    \/ ExternalChange
    \/ ExternalRefused
    \/ Listen

SpecReply == ReplyInit /\ [][ReplyNext]_vars

(***************************************************************************)
(* The delete specification: Linux delete called on a table that holds     *)
(* several entries of one destination and prefix, while another process    *)
(* adds and removes a route of its own.                                    *)
(***************************************************************************)
MaxExt == 2             \* table changes made by the other process

DeleteTable ==
    << Entry(V4(192, 168, 1, 0), 24, None, 2),
       [Entry(V4(10, 14, 0, 0), 24, Some(V4(192, 1, 2, 2)), 3) EXCEPT !.table = 100],
       Entry(V4(10, 14, 0, 0), 24, Some(V4(192, 1, 2, 1)), 9),
       Entry(V4(10, 14, 0, 0), 25, None, 9),
       Entry(V4(203, 0, 113, 0), 24, Some(V4(192, 0, 2, 1)), 2),
       Entry(V6(0, 0), 0, Some(V6(65152, 1)), 2) >>

\* the routes delete is called with: a destination and prefix the table holds
\* twice, given with another gateway and interface than either entry; the
\* other process's route; a route the table does not hold
DeleteRoutes ==
    { R3, Route_new(V4(203, 0, 113, 0), 24), Route_new(V4(10, 15, 0, 0), 24) }

\* the state Handle::new leaves on a Linux machine with this table
DeleteInit ==
    /\ os = "linux"
    /\ overflow_checks \in BOOLEAN
    /\ rib = DeleteTable
    /\ ver = 0 /\ nreq = 0 /\ ncancel = 0
    /\ call = Idle /\ hist = <<>>
    /\ nl_queue = <<>> /\ nl_reply = <<>> /\ sock = <<>> /\ lq = <<>>
    /\ listener = "running" /\ handle = "alive" /\ mem = Registered
    /\ chan = NewChannel /\ published = <<>>
    /\ subs = [s \in Subscribers |-> NoSub]
    /\ budget = MaxExt
    /\ mask_route = Route_new(V4(10, 10, 0, 0), 32)
    /\ mask_result = NotCalled
    /\ NoProbe

DeleteNext ==
    \/ \E r \in DeleteRoutes : LinuxDelete(r)
    \/ LinuxDeleteStep
    \/ NlProcess
    \/ ExternalChange
    \/ Listen

SpecDelete == DeleteInit /\ [][DeleteNext]_vars

(***************************************************************************)
(* The drop specification: on Windows the Handle is moved and dropped      *)
(* while the system calls the callback on its own thread.                  *)
(***************************************************************************)
DropInit ==
    /\ Constructed
    /\ os = "windows"
    /\ overflow_checks
    /\ rib = InitTable1(os)
    /\ budget = MaxExt
    /\ mask_route = Route_new(V4(10, 10, 0, 0), 32)
    /\ mask_result = NotCalled
    /\ NoProbe

DropNext ==
    \/ ExternalChange
    \/ \E r \in Routes : WinAdd(r)
    \/ MoveHandle
    \/ CallbackEnter
    \/ CallbackReturn
    \/ DropBegin
    \/ DropEnd
    \/ Subscribe(1)

SpecDrop == DropInit /\ [][DropNext]_vars

\* C25: on Windows the context pointer registered with NotifyRouteChange2 is
\* valid whenever the callback runs: until CancelMibChangeNotify2 has
\* returned, the box that holds the Sender is alive at the address that was
\* registered, wherever the Handle has been moved.
C25_CallbackContextValid ==
    os = "windows" =>
        /\ listener = "calling" => ContextValid(mem)
        /\ handle \in {"alive", "dropping"} => ContextValid(mem)

\* the Handle has been moved, its drop waits in CancelMibChangeNotify2 while
\* the callback runs
C25_Witness ==
    /\ os = "windows" /\ mem.handle_at > 0
    /\ handle = "dropping" /\ listener = "calling"

(***************************************************************************)
(* The netmask specification: mask() applied to routes whose destination   *)
(* and prefix range over both families and every u8 prefix.                *)
(***************************************************************************)
MaskDestinations ==
    { V4(10, 10, 0, 0), V4(0, 0, 0, 0), V4(255, 255, 255, 255),
      V6(30666, 12773), V6(0, 0) }

MaskInit ==
    /\ Constructed
    /\ os = "linux"
    /\ budget = 0
    /\ \E d \in MaskDestinations, p \in 0..U8Max : mask_route = Route_new(d, p)
    /\ mask_result = NotCalled
    /\ NoProbe

MaskCall ==
    /\ mask_result = NotCalled
    /\ mask_result' = mask(mask_route, overflow_checks)
    /\ UNCHANGED <<cfgVars, mem, mask_route, fn_arg, fn_ret, rib, ver, nreq, ncancel, call, hist, nlVars, sock,
                   fanVars>>

MaskNext == MaskCall

SpecMask == MaskInit /\ [][MaskNext]_vars

\* C1: for every family and every prefix p in 0..width, mask() is the address
\* of that family with p leading 1-bits followed by zeros (all-zero at p = 0,
\* all-one at p = width), whatever the destination's bits.
C1_MaskHasPrefixLeadingOnes ==
    LET fam == mask_route.destination.fam
        p == mask_route.prefix
    IN  (mask_result /= NotCalled /\ p <= Width(fam))
        => /\ mask_result = Returned(PrefixMask(fam, p))
           /\ (p = 0 => mask_result.v = UNSPECIFIED(fam))
           /\ (p = Width(fam)
                 => \A i \in DOMAIN mask_result.v.oct : mask_result.v.oct[i] = 255)

C1_Witness ==
    /\ mask_route.prefix = 0
    /\ mask_route.destination = V4(255, 255, 255, 255)
    /\ mask_result = Returned(V4(0, 0, 0, 0))

\* C29: mask() returns a value for every prefix a u8 holds, prefixes greater
\* than the family width included, and the u32 subtraction width - prefix
\* does not overflow.
C29_MaskTotalOverU8 ==
    mask_result /= NotCalled
    => /\ mask_result /= Panicked
       /\ ~U32Sub(Width(mask_route.destination.fam), mask_route.prefix).overflow

(***************************************************************************)
(* Properties of the facade calls, stated on the history of completed      *)
(* calls.                                                                  *)
(***************************************************************************)
Unchanged(a, b) == a.v0 = b.v1

ReturnedSome(h) == h.op = "default_route" /\ IsOk(h.res) /\ h.res.v.v.some

\* C2: on every backend, a route default_route() returns as Some(r) has the
\* unspecified address of its family as destination, prefix 0, and a gateway
\* that is not the unspecified address.
C2_DefaultRouteIsADefault ==
    \A i \in 1..Len(hist) :
        ReturnedSome(hist[i])
        => LET r == hist[i].res.v.v.v
           IN  /\ r.destination = UNSPECIFIED(r.destination.fam)
               /\ r.prefix = 0
               /\ r.gateway /= Some(UNSPECIFIED("V4"))
               /\ r.gateway /= Some(UNSPECIFIED("V6"))

\* default_route() on Windows has passed over the on-link default whose next
\* hop is 0.0.0.0 and has answered the default that has a gateway
C2_Witness ==
    /\ os = "windows"
    /\ rib = InitTable1("windows")
    /\ \E i \in 1..Len(hist) :
          /\ ReturnedSome(hist[i])
          /\ hist[i].res.v.v.v.gateway = Some(V4(192, 168, 1, 1))

\* C3: when the table does not change between the two calls, the route
\* default_route() returns as Some(r) is, field for field, an element of the
\* vector list() returns.
C3_DefaultRouteIsListed ==
    \A i \in 1..(Len(hist) - 1) :
        \A d \in {i, i + 1} :
            LET l == 2 * i + 1 - d
            IN  (/\ ReturnedSome(hist[d])
                 /\ hist[l].op = "list" /\ IsOk(hist[l].res)
                 /\ Unchanged(hist[i], hist[i + 1]))
                => \E k \in 1..Len(hist[l].res.v.v) :
                       hist[l].res.v.v[k] = hist[d].res.v.v.v

\* default_route() answered a route and list(), called next on the same
\* table, answered a vector
C3_Witness ==
    \E i \in 1..(Len(hist) - 1) :
        /\ ReturnedSome(hist[i])
        /\ hist[i + 1].op = "list" /\ IsOk(hist[i + 1].res)
        /\ Unchanged(hist[i], hist[i + 1])
        /\ Len(hist[i + 1].res.v.v) >= 3

Succeeded(h, op) == h.op = op /\ IsOk(h.res)

\* C4: for a route r with both a gateway and an ifindex, list() called after
\* add(r) returned Ok (nothing else changing the table) has an entry with r's
\* destination, prefix, gateway and ifindex; and list() called after delete(r)
\* then returned Ok has no entry with r's destination and prefix.
C4_AddedRouteIsListed ==
    /\ \A i \in 1..(Len(hist) - 1) :
          LET a == hist[i]
              l == hist[i + 1]
          IN  (/\ Succeeded(a, "add")
               /\ a.route.v.gateway.some /\ a.route.v.ifindex.some
               /\ l.op = "list" /\ l.v0 = a.v1 /\ l.v1 = a.v1)
              => /\ IsOk(l.res)
                 /\ \E k \in 1..Len(l.res.v.v) :
                       /\ l.res.v.v[k].destination = a.route.v.destination
                       /\ l.res.v.v[k].prefix = a.route.v.prefix
                       /\ l.res.v.v[k].gateway = a.route.v.gateway
                       /\ l.res.v.v[k].ifindex = a.route.v.ifindex
    /\ \A i \in 1..(Len(hist) - 2) :
          LET a == hist[i]
              d == hist[i + 1]
              l == hist[i + 2]
          IN  (/\ Succeeded(a, "add")
               /\ a.route.v.gateway.some /\ a.route.v.ifindex.some
               /\ Succeeded(d, "delete") /\ d.route = a.route /\ d.v0 = a.v1
               /\ l.op = "list" /\ l.v0 = d.v1 /\ l.v1 = d.v1)
              => /\ IsOk(l.res)
                 /\ \A k \in 1..Len(l.res.v.v) :
                       ~ /\ l.res.v.v[k].destination = a.route.v.destination
                         /\ l.res.v.v[k].prefix = a.route.v.prefix

\* what list() answers for the table as it is now
ListNow(oob) ==
    IF os = "linux"
    THEN LET routes == IntoRoutes(LinuxDump(rib, "V4") \o LinuxDump(rib, "V6"), <<>>)
         IN  IF routes = Panicked THEN Panicked ELSE Returned(Ok(routes.v))
    ELSE IF os = "macos" THEN list_routes(rib, overflow_checks, oob)
    ELSE win_list(rib)

C10_DuplicateAddAlreadyExists ==
    \A i \in 1..(Len(hist) - 1) :
        LET a == hist[i]
            b == hist[i + 1]
        IN  (/\ Succeeded(a, "add")
             /\ b.op = "add" /\ b.route = a.route /\ b.res /= Cancelled
             /\ b.v0 = a.v1)
            => /\ IsErr(b.res) /\ b.res.v.kind = "AlreadyExists"
               /\ b.v1 = b.v0

(***************************************************************************)
(* The function specification: the macOS record decoder, try_get_msg_buf   *)
(* and the two code_to_error, each applied to one input drawn from the     *)
(* sets below.                                                             *)
(***************************************************************************)
\* entries of a kernel table: destinations of both families under prefixes
\* from 0 to the family's width, with and without a gateway
DumpEntries ==
    { MacEntry(d[1], d[2], g, 4, {"RTF_UP"}) :
        d \in { <<V4(0, 0, 0, 0), 0>>, <<V4(10, 0, 0, 0), 8>>, <<V4(172, 16, 0, 0), 12>>,
                <<V4(192, 168, 1, 0), 24>>, <<V4(192, 168, 1, 128), 25>>,
                <<V4(192, 168, 1, 7), 32>> },
        g \in { None, Some(V4(192, 168, 1, 1)) } }
    \cup
    { MacEntry(d[1], d[2], g, 4, {"RTF_UP"}) :
        d \in { <<V6(0, 0), 0>>, <<V6(8193, 0), 32>>, <<V6(8193, 0), 64>>,
                <<V6(8193, 1), 128>> },
        g \in { None, Some(V6(8193, 1)) } }

\* the record of an entry followed by the sockaddr_dl of its interface (RTAX_IFP,
\* index 4), as the kernel sends it in a notification
MacRecordWithIfp(e) ==
    LET rec == MacDumpRecord(e)
    IN  [hdr |-> [rec.hdr EXCEPT !.rtm_addrs = @ \cup {4},
                                 !.rtm_msglen = @ + SIZEOF_sockaddr_dl],
         body |-> rec.body \o sockaddr_dl(e.ifindex.v)]

\* the record of an entry whose netmask is a whole sockaddr, as in a request
MacRecordFullMask(e) ==
    LET rec == MacDumpRecord(e)
        body == sockaddr_of(e.destination)
                \o SubSeq(rec.body, Len(sockaddr_of(e.destination)) + 1,
                          Len(rec.body) - Len(MacCompactMask(e.destination.fam, e.prefix)))
                \o sockaddr_of([fam |-> e.destination.fam,
                                oct |-> PrefixMaskOctets(e.destination.fam, e.prefix)])
    IN  [hdr |-> [rec.hdr EXCEPT !.rtm_msglen = SIZEOF_rt_msghdr + Len(body)],
         body |-> body]

WellFormedRecords ==
    { Probe("list_routes", "dump", MacDumpRecord(e), e.prefix, <<>>, 0) : e \in DumpEntries }
    \cup { Probe("list_routes", "ifp", MacRecordWithIfp(e), e.prefix, <<>>, 0) :
             e \in DumpEntries }
    \cup { Probe("list_routes", "fullmask", MacRecordFullMask(e), e.prefix, <<>>, 0) :
             e \in {x \in DumpEntries : x.prefix < Width(x.destination.fam)} }

\* records that are not what the kernel's ABI promises
MalformedRecords ==
    LET base == MacRecordWithIfp(MacEntry(V4(192, 168, 1, 0), 24,
                                          Some(V4(192, 168, 1, 1)), 4, {"RTF_UP"}))
    IN  { Probe("list_routes", "sa_len past the end",
                [base EXCEPT !.body[1] = 200], 24, <<>>, 0),
          Probe("list_routes", "short sockaddr_in",
                [base EXCEPT !.body[1] = 8], 24, <<>>, 0),
          Probe("list_routes", "short sockaddr_in6",
                [hdr |-> base.hdr,
                 body |-> <<20, AF_INET6>> \o Zeros(18) \o SubSeq(base.body, 17, Len(base.body))],
                24, <<>>, 0),
          Probe("list_routes", "rtm_msglen below the header",
                [base EXCEPT !.hdr.rtm_msglen = 50], 24, <<>>, 0),
          Probe("list_routes", "destination short of a sockaddr",
                [hdr |-> [base.hdr EXCEPT !.rtm_addrs = {RTAX_DST},
                                          !.rtm_msglen = SIZEOF_rt_msghdr + 8],
                 body |-> SubSeq(base.body, 1, 8)], 24, <<>>, 0),
          Probe("list_routes", "rtm_version", [base EXCEPT !.hdr.rtm_version = 4],
                24, <<>>, 0) }

\* a record whose gateway is a link sockaddr of sa_len n, followed by a
\* netmask of 24 bits
WalkRecord(n) ==
    LET pad == IF n = 0 THEN 4 ELSE ((n + 3) \div 4) * 4
        body == sockaddr_in(V4(192, 168, 1, 0))
                \o <<n, AF_LINK>> \o Zeros(pad - 2)
                \o sockaddr_in(V4(255, 255, 255, 0))
    IN  [hdr |-> [MacDumpRecord(MacEntry(V4(192, 168, 1, 0), 24, None, 4, {"RTF_UP"})).hdr
                    EXCEPT !.rtm_msglen = SIZEOF_rt_msghdr + Len(body)],
         body |-> body]

WalkRecords == { Probe("list_routes", "walk", WalkRecord(n), n, <<>>, 0) : n \in 0..U8Max }

\* gateways of every kind: IPv4; IPv6 global (with non-zero bytes 2-3), fe80::,
\* fe90:: and febf:: (link-local, fe80::/10), fec0:: (site-local), and
\* multicast of scope 1, 2 (also with flag bits set) and 5
Gateways ==
    { V4(192, 168, 1, 1), V6(8193, 1),
      [V6(8193, 1) EXCEPT !.oct[3] = 13, !.oct[4] = 184],
      V6(65152, 1), V6(65168, 1), V6(65215, 1), V6(65216, 1),
      V6(65281, 1), V6(65282, 1), V6(65298, 1), V6(65285, 1),
      [V6(65285, 1) EXCEPT !.oct[4] = 7] }

\* the record of a route through each gateway on interface 4
GatewayRecords ==
    { Probe("list_routes", "gateway",
            MacDumpRecord(MacEntry(IF g.fam = "V4" THEN V4(10, 0, 0, 0) ELSE V6(8193, 0),
                                   8, Some(g), 4, {"RTF_UP", "RTF_GATEWAY"})),
            8, <<>>, 0) : g \in Gateways }

\* what the two sysctl calls of each of three attempts answer: 0, EPERM (1),
\* ENOMEM (12, the buffer was too small: the table grew), EFAULT (14)
SysctlAnswers ==
    { Probe("try_get_msg_buf", "sysctl", NoRecord, 0, <<a, b, c>>, 0) :
        a \in [size : {0, 1}, fill : {0, 12, 14}],
        b \in [size : {0, 1}, fill : {0, 12, 14}],
        c \in [size : {0, 1}, fill : {0, 12, 14}] }

ReturnCodes ==
    { Probe("code_to_error", "code", NoRecord, 0, <<>>, c) :
        c \in (1..60) \cup {87, 1168, 3436, 5010, 5011} }

\* routes of both families with each of gateway, ifindex, luid and metric
\* set and unset
RoundTripRoutes ==
    { [Route_new(d, 24) EXCEPT !.gateway = g, !.ifindex = i, !.luid = l, !.metric = m] :
        d \in {V4(10, 14, 0, 0), V6(8193, 0)},
        g \in {None, Some(V4(192, 1, 2, 1)), Some(V6(65152, 1)), Some(V4(0, 0, 0, 0))},
        i \in {None, Some(0), Some(9)},
        l \in {None, Some(0), Some(5)},
        m \in {None, Some(0), Some(25)} }

RowProbes == { Probe("row_to_route", "route", r, r.prefix, <<>>, 0) : r \in RoundTripRoutes }

\* routes with a gateway only, an ifindex only, and both, of each family
RequestRoutes ==
    { R1, R2, R3,
      with_gateway(Route_new(V6(8193, 0), 32), Some(V6(65152, 1))),
      with_ifindex(Route_new(V6(8193, 0), 32), Some(9)),
      with_ifindex(with_gateway(Route_new(V6(8193, 0), 32), Some(V6(65152, 1))), Some(9)) }

RequestProbes ==
    { Probe("add_or_del_route", op, r, r.prefix, <<>>, 0) :
        op \in {"add", "delete"}, r \in RequestRoutes }

\* the buffer that holds the records one after the other
RECURSIVE BufferOf(_)
BufferOf(records) ==
    IF records = <<>> THEN <<>>
    ELSE rt_msghdr_bytes(Head(records).hdr) \o Head(records).body \o BufferOf(Tail(records))

\* dump buffers: the records of a table; the same when the second sysctl
\* answers fewer records than the buffer has room for; and the same with the
\* rtm_msglen of the first record (a cloned host route), of the second or of
\* the last replaced
DumpBuffers ==
    LET recs == SeqMap(MacDumpRecord, InitTable2("macos"))
        c == MacDumpRecord(MacEntry(V4(192, 168, 1, 9), 32, None, 4,
                                    {"RTF_UP", "RTF_WASCLONED"}))
        with_len(k, n) == [recs EXCEPT ![k].hdr.rtm_msglen = n]
        probe(shape, records, len) ==
            Probe("list_routes_loop", shape,
                  [records |-> records, buf |-> BufferOf(records), len |-> len],
                  0, <<>>, 0)
        whole(records) == Len(BufferOf(records))
    IN  { probe("dump", recs, whole(recs)),
          probe("dump", recs \o <<c>>, whole(recs \o <<c>>)),
          probe("dump", <<>>, 0),
          probe("shorter answer", recs \o <<c>>, whole(recs)),
          probe("rtm_msglen", [(recs \o <<c>>) EXCEPT ![3].hdr.rtm_msglen = @ + 32],
                whole(recs)) }
        \cup { probe("rtm_msglen", with_len(k, n), whole(recs)) :
                 k \in {1, 2}, n \in {0, 50, 91, 400, 1000} }

FnProbes(o) ==
    IF o = "macos"
    THEN WellFormedRecords \cup MalformedRecords \cup WalkRecords \cup SysctlAnswers
         \cup ReturnCodes \cup GatewayRecords \cup RequestProbes \cup DumpBuffers
    ELSE IF o = "windows" THEN ReturnCodes \cup RowProbes
    ELSE {}

FnInit ==
    /\ Constructed
    /\ rib = InitTable1(os)
    /\ budget = 0
    /\ mask_route = Route_new(V4(10, 10, 0, 0), 32)
    /\ mask_result = NotCalled
    /\ fn_arg \in FnProbes(os)
    /\ fn_ret = NotCalled

fnUnchanged ==
    UNCHANGED <<cfgVars, mem, mask_route, mask_result, fn_arg, rib, ver, nreq, ncancel, call,
                hist, nlVars, sock, fanVars>>

\* list_routes over a buffer that holds the one record; walk is the
\* route_addresses array message_to_route fills for it
ListRoutesCall ==
    /\ fn_ret = NotCalled /\ fn_arg.fn = "list_routes"
    /\ \E oob \in {0, 255} :
         fn_ret' = Returned(
            [list |-> list_routes_from(<<fn_arg.rec>>, <<>>, overflow_checks, oob),
             walk |-> route_addresses(fn_arg.rec.hdr.rtm_addrs, fn_arg.rec.body, 0, 0,
                                      NoAddresses, overflow_checks)])
    /\ fnUnchanged

TryGetMsgBufCall ==
    /\ fn_ret = NotCalled /\ fn_arg.fn = "try_get_msg_buf"
    /\ fn_ret' = Returned(try_get_msg_buf(fn_arg.sysctl, 1))
    /\ fnUnchanged

CodeToErrorCall ==
    /\ fn_ret = NotCalled /\ fn_arg.fn = "code_to_error"
    /\ fn_ret' = Returned(IF os = "macos" THEN mac_code_to_error(fn_arg.code)
                          ELSE win_code_to_error(fn_arg.code))
    /\ fnUnchanged

\* row_to_route on the row built from a route
RowToRouteCall ==
    /\ fn_ret = NotCalled /\ fn_arg.fn = "row_to_route"
    /\ fn_ret' = row_to_route(Route_into_Row(fn_arg.rec))
    /\ fnUnchanged

\* the number of sockaddrs packed in a request body from pos on
RECURSIVE SockaddrCount(_, _)
SockaddrCount(body, pos) ==
    IF pos >= Len(body) THEN 0
    ELSE 1 + SockaddrCount(body, pos + (IF body[pos + 1] = 0 THEN 4
                                        ELSE ((body[pos + 1] + 3) \div 4) * 4))

\* add_or_del_route up to the socket, as Handle::add and Handle::delete call
\* it, and message_to_route on the request it built
AddOrDelRequestCall ==
    /\ fn_ret = NotCalled /\ fn_arg.fn = "add_or_del_route"
    /\ LET route == fn_arg.rec
           m == mask(route, overflow_checks).v
           req == IF fn_arg.shape = "add"
                  THEN mac_request(route.destination, m, route.gateway, route.ifindex, TRUE)
                  ELSE mac_request(route.destination, m, None, None, FALSE)
       IN  fn_ret' = Returned([req |-> req,
                               route |-> message_to_route(req.hdr, req.body,
                                                          overflow_checks, 0)])
    /\ fnUnchanged

\* list_routes from the buffer try_get_msg_buf returned
ListRoutesLoopCall ==
    /\ fn_ret = NotCalled /\ fn_arg.fn = "list_routes_loop"
    /\ fn_ret' = Returned(list_routes_loop(fn_arg.rec.buf, fn_arg.rec.len, 0, <<>>, <<>>,
                                           FALSE, overflow_checks))
    /\ fnUnchanged

FnNext ==
    \/ AddOrDelRequestCall
    \/ ListRoutesLoopCall
    \/ ListRoutesCall
    \/ TryGetMsgBufCall
    \/ CodeToErrorCall
    \/ RowToRouteCall

SpecFn == FnInit /\ [][FnNext]_vars

(***************************************************************************)
(* The notification specification: the kernel sends the listener           *)
(* notifications of every type, those that are no route change included.   *)
(***************************************************************************)
MaxNotifications == 3   \* notifications sent in one behaviour

\* what else a read of the route socket can give the macOS listener: an error,
\* 0 bytes, fewer bytes than an rt_msghdr (of a type the listener skips, and
\* of RTM_ADD), and a whole RTM_ADD that carries no destination
MacBadReads ==
    LET n == MacNotification(
                 MacRecordWithIfp(MacEntry(V4(203, 0, 113, 0), 24,
                                           Some(V4(192, 0, 2, 1)), 2, {"RTF_UP"})))
        add == [n EXCEPT !.hdr.rtm_type = RTM_ADD]
    IN  { [add EXCEPT !.read_err = TRUE],
          [add EXCEPT !.read = 0],
          [add EXCEPT !.read = 20],
          [n EXCEPT !.hdr.rtm_type = 12, !.read = 20],
          [add EXCEPT !.hdr.rtm_addrs = {RTAX_GATEWAY}] }

\* the messages a kernel can send the listener: rtnetlink messages of a route
\* and of other objects; route-socket messages RTM_ADD .. RTM_CHANGE, RTM_GET
\* (4), RTM_NEWADDR (12) and RTM_IFINFO (14); the four MIB_NOTIFICATION_TYPEs
KernelNotifications(o) ==
    IF o = "linux"
    THEN { LinuxNotification(k, e) :
             k \in {"NewRoute", "DelRoute", "NewLink", "NewAddress"},
             e \in { Entry(V4(203, 0, 113, 0), 24, Some(V4(192, 0, 2, 1)), 2),
                     Entry(V6(0, 0), 0, Some(V6(8193, 1)), 2) } }
    ELSE IF o = "macos"
    THEN { MacNotification([hdr |-> [MacRecordWithIfp(e).hdr EXCEPT !.rtm_type = t],
                            body |-> MacRecordWithIfp(e).body]) :
             t \in {RTM_ADD, RTM_DELETE, RTM_CHANGE, 4, 12, 14},
             e \in { MacEntry(V4(203, 0, 113, 0), 24, Some(V4(192, 0, 2, 1)), 2, {"RTF_UP"}),
                     MacEntry(V6(0, 0), 0, Some(V6(8193, 1)), 2, {"RTF_UP"}) } }
         \cup MacBadReads
    ELSE { WinNotification(t, row) :
             t \in {"MibParameterNotification", "MibAddInstance", "MibDeleteInstance",
                    "MibInitialNotification"},
             row \in { WinRow(V4(203, 0, 113, 0), 24, Some(V4(192, 0, 2, 1)), 2, 25),
                       WinRow(V6(0, 0), 0, Some(V6(8193, 1)), 2, 25) } }

\* the kernel sends the listener one notification
KernelNotifies ==
    /\ budget > 0 /\ Len(lq) < MaxPending /\ listener \in {"running", "aborting"}
    /\ budget' = budget - 1
    /\ \E n \in KernelNotifications(os) : lq' = Append(lq, n)
    /\ UNCHANGED <<os, overflow_checks, maskVars, mem, rib, ver, nreq, ncancel, call, hist,
                   nlVars, sock, listener, handle, chan, published, subs>>

ListenInit ==
    /\ Constructed
    /\ rib = InitTable1(os)
    /\ budget = MaxNotifications
    /\ mask_route = Route_new(V4(10, 10, 0, 0), 32)
    /\ mask_result = NotCalled
    /\ NoProbe

ListenNext ==
    \/ KernelNotifies
    \/ Listen
    \/ Subscribe(1)
    \/ Poll(1)

SpecListen == ListenInit /\ [][ListenNext]_vars

(***************************************************************************)
(* Errors of add and delete.                                               *)
(***************************************************************************)
\* an entry of the kernel table has the destination and the prefix of r
Installed(r) ==
    \E k \in 1..Len(rib) :
        IF os = "windows"
        THEN /\ SockaddrInetGet(rib[k].DestinationPrefix.Prefix) = Some(r.destination)
             /\ rib[k].DestinationPrefix.PrefixLength = r.prefix
        ELSE rib[k].destination = r.destination /\ rib[k].prefix = r.prefix

\* the call that completes in this step, when one does
JustCompleted == hist' /= hist
Last == hist'[Len(hist')]

\* C11: when no installed route has the destination and prefix of r and the
\* table has not changed since the call began, delete(r) completes with an
\* error of kind NotFound and the table as it was; and on Linux no
\* RTM_DELROUTE request is queued for such a call.
C11_DeleteAbsentIsNotFound ==
    [][/\ (/\ JustCompleted /\ Last.op = "delete"
           /\ Last.v0 = ver /\ ~Installed(Last.route.v))
          => /\ IsErr(Last.res) /\ Last.res.v.kind = "NotFound"
             /\ rib' = rib
       /\ (/\ os = "linux" /\ call /= Idle /\ call.op = "delete"
           /\ call.v0 = ver /\ ~Installed(call.route.v))
          => \A i \in 1..Len(nl_queue') : nl_queue'[i].kind /= "del"
      ]_vars

\* the gateway, the source hint or the source of r is of another family than
\* its destination
Differs(r, opt) == opt.some /\ opt.v.fam /= r.destination.fam

FamilyMismatch(r) ==
    \/ Differs(r, r.gateway)
    \/ Differs(r, source_hint(r))
    \/ Differs(r, source(r))

\* C12: on Linux, add(r) with a gateway, source hint or source of another
\* family than the destination returns InvalidInput in the step it is called
\* in: no call is left waiting, no request is queued for the kernel, the table
\* is unchanged and nothing is notified or published.
C12_LinuxFamilyMismatchRejected ==
    [][/\ (os = "linux" /\ call' /= Idle /\ call'.op = "add")
          => ~FamilyMismatch(call'.route.v)
       /\ (/\ os = "linux" /\ JustCompleted /\ Last.op = "add"
           /\ Last.res /= Cancelled /\ FamilyMismatch(Last.route.v))
          => /\ IsErr(Last.res) /\ Last.res.v.kind = "InvalidInput"
             /\ call = Idle /\ call' = Idle
             /\ UNCHANGED <<rib, ver, nl_queue, nl_reply, lq, chan, published>>
      ]_vars

\* on Linux add has returned InvalidInput for a route whose gateway is of the
\* destination's family and whose source hint is not
C12_Witness ==
    /\ os = "linux"
    /\ \E i \in 1..Len(hist) :
          /\ hist[i].op = "add"
          /\ ~Differs(hist[i].route.v, hist[i].route.v.gateway)
          /\ Differs(hist[i].route.v, source_hint(hist[i].route.v))
          /\ IsErr(hist[i].res) /\ hist[i].res.v.kind = "InvalidInput"
          /\ hist[i].v1 = hist[i].v0
    /\ nl_queue = <<>> /\ published = <<>>

\* C13: on macOS, add(r) with a gateway of another family than the destination
\* returns an error of kind InvalidInput.
C13_MacFamilyMismatchRejected ==
    \A i \in 1..Len(hist) :
        (/\ os = "macos" /\ hist[i].op = "add" /\ hist[i].res /= Cancelled
         /\ Differs(hist[i].route.v, hist[i].route.v.gateway))
        => IsErr(hist[i].res) /\ hist[i].res.v.kind = "InvalidInput"

\* C14: on Linux and on macOS, add(r) for a route with neither a gateway nor
\* an ifindex returns an error of kind InvalidInput.
C14_NoGatewayNoIfindexRejected ==
    \A i \in 1..Len(hist) :
        (/\ os \in {"linux", "macos"} /\ hist[i].op = "add" /\ hist[i].res /= Cancelled
         /\ ~hist[i].route.v.gateway.some /\ ~hist[i].route.v.ifindex.some)
        => IsErr(hist[i].res) /\ hist[i].res.v.kind = "InvalidInput"

\* message m of a dump decodes to the destination and the prefix of r
Names(m, r) ==
    /\ RouteMessage_into_Route(m).v.destination = r.destination
    /\ RouteMessage_into_Route(m).v.prefix = r.prefix

\* the RTM_DELROUTE requests waiting in the queue
DelRequests(q) == {i \in 1..Len(q) : q[i].kind = "del"}

\* C22: on Linux, delete(r) on its dump submits one RTM_DELROUTE, carrying the
\* first message of the dump that decodes to r's destination and prefix,
\* whatever the table, gateway and ifindex of that entry and of r, and none
\* when no message does; the kernel removes for it the one entry the message
\* names and every other entry stays; a delete that returns Ok has submitted
\* its request.
C22_LinuxDeleteRemovesFirstMatch ==
    [][/\ (/\ os = "linux" /\ call /= Idle /\ call.op = "delete" /\ call.pc = "scan"
           /\ nl_reply /= <<>> /\ nl_reply' = <<>> /\ Head(nl_reply).errno = 0)
          => LET msgs == Head(nl_reply).msgs
                 r == call.route.v
             IN  IF \E k \in 1..Len(msgs) : Names(msgs[k], r)
                 THEN /\ Cardinality(DelRequests(nl_queue')) = 1
                      /\ \E k \in 1..Len(msgs) :
                            /\ Names(msgs[k], r)
                            /\ \A j \in 1..(k - 1) : ~Names(msgs[j], r)
                            /\ nl_queue'[Len(nl_queue')].msg = msgs[k]
                      /\ call' /= Idle /\ call'.pc = "del"
                 ELSE /\ DelRequests(nl_queue') = {}
                      /\ call' = Idle
       /\ (/\ os = "linux" /\ nl_queue /= <<>> /\ nl_queue' = Tail(nl_queue)
           /\ Head(nl_queue).kind = "del")
          => \/ rib' = rib
             \/ \E pos \in 1..Len(rib) :
                   /\ LinuxDumpMessage(rib[pos]) = Head(nl_queue).msg
                   /\ rib' = RemoveAt(rib, pos)
       /\ (/\ os = "linux" /\ JustCompleted /\ Last.op = "delete" /\ IsOk(Last.res))
          => call.pc = "del" /\ Last.v1 > Last.v0
       /\ Cardinality(DelRequests(nl_queue')) <= 1
      ]_vars

\* delete(10.14.0.0/24 dev 9) has returned Ok: the entry of table 100, the
\* first of the dump, is gone and the entry of the main table with the same
\* destination and prefix is still installed
C22_Witness ==
    /\ os = "linux"
    /\ \E i \in 1..Len(hist) :
          hist[i].op = "delete" /\ hist[i].route = Some(R3) /\ IsOk(hist[i].res)
    /\ \A k \in 1..Len(rib) : ~(rib[k].destination = V4(10, 14, 0, 0) /\ rib[k].table = 100)
    /\ \E k \in 1..Len(rib) :
          rib[k] = Entry(V4(10, 14, 0, 0), 24, Some(V4(192, 1, 2, 1)), 9)
    /\ \E k \in 1..Len(rib) : rib[k] = Entry(V4(10, 14, 0, 0), 25, None, 9)

\* C23: on Linux, a delete(r) that fails because its target is absent when it
\* is to be removed (no message of the dump names it, or the kernel finds the
\* entry gone when the RTM_DELROUTE arrives, another process having removed
\* it since the dump) returns an error of kind NotFound.
C23_LinuxDeleteRaceIsNotFound ==
    [][(/\ os = "linux" /\ JustCompleted /\ Last.op = "delete"
        /\ nl_reply /= <<>>
        /\ \/ call.pc = "del" /\ Head(nl_reply).errno = ESRCH
           \/ /\ call.pc = "scan" /\ Head(nl_reply).errno = 0
              /\ \A k \in 1..Len(Head(nl_reply).msgs) :
                    ~Names(Head(nl_reply).msgs[k], call.route.v))
       => IsErr(Last.res) /\ Last.res.v.kind = "NotFound"
      ]_vars

\* C27: on macOS, when other routing messages have reached the route socket
\* of an add or a delete between its write and its read, the call returns Ok
\* exactly when the kernel accepted its own request, and otherwise the error
\* of its own request.
C27_MacReplyIsOwnAnswer ==
    [][(/\ os = "macos" /\ JustCompleted /\ Last.op \in {"add", "delete"}
        /\ call /= Idle /\ call.pc = "read"
        /\ Len(sock) > call.acc[1])
       => LET own == sock[call.acc[1]]
          IN  /\ IsOk(Last.res) <=> own.hdr.rtm_errno = 0
              /\ IsErr(Last.res) => Last.res.v.code = own.hdr.rtm_errno
      ]_vars

(***************************************************************************)
(* Properties of the macOS decoder, of the dump and of the error codes.    *)
(***************************************************************************)
Called(fn) == fn_arg.fn = fn /\ fn_ret /= NotCalled

\* C15: list() over a malformed record (a sockaddr whose sa_len exceeds the
\* bytes remaining, an AF_INET or AF_INET6 sockaddr shorter than its
\* structure, an rtm_msglen smaller than the header, the destination bit set
\* with fewer than 16 bytes remaining) returns an error of kind Other and
\* does not panic; over a record of another rtm_version it panics.
C15_MalformedRecordIsOtherError ==
    Called("list_routes")
    => /\ fn_arg.shape \in {"sa_len past the end", "short sockaddr_in",
                            "short sockaddr_in6", "rtm_msglen below the header",
                            "destination short of a sockaddr"}
          => /\ fn_ret.v.list /= Panicked
             /\ IsErr(fn_ret.v.list) /\ fn_ret.v.list.v.kind = "Other"
       /\ fn_arg.shape = "rtm_version" => fn_ret.v.list = Panicked

\* the kind the taxonomy gives a kernel return code
TaxonomyKind(o, c) ==
    IF o = "macos"
    THEN (IF c = 17 THEN "AlreadyExists" ELSE IF c = 3 THEN "NotFound"
          ELSE IF c = 55 THEN "OutOfMemory" ELSE "Other")
    ELSE (IF c \in {2, 1168} THEN "NotFound" ELSE IF c = 5 THEN "PermissionDenied"
          ELSE IF c = 5010 THEN "AlreadyExists" ELSE "Other")

\* C17: code_to_error maps rtm_errno 17 to AlreadyExists, 3 to NotFound and
\* 55 (ENOBUFS) to OutOfMemory on macOS, codes 2 and 1168 to NotFound, 5 to
\* PermissionDenied and 5010 to AlreadyExists on Windows, every other non-zero
\* code to Other, and the error it builds carries the numeric code.
C17_CodesMapToTaxonomy ==
    Called("code_to_error")
    => /\ ~fn_ret.v.ok
       /\ fn_ret.v.kind = TaxonomyKind(os, fn_arg.code)
       /\ fn_ret.v.code = fn_arg.code

\* the dump as the policy describes it, from attempt i on: a failing size
\* query and a fill failure that is not a size race (ENOMEM, 12) end it with
\* the OS error, a size race goes on to the next attempt, the first fill that
\* succeeds ends it with that attempt's buffer
RECURSIVE DumpPolicy(_, _)
DumpPolicy(sysctl, i) ==
    IF i > 3 THEN Err("exhausted", 0)
    ELSE IF sysctl[i].size /= 0 THEN os_error(sysctl[i].size)
    ELSE IF sysctl[i].fill = 0 THEN Ok([attempt |-> i])
    ELSE IF sysctl[i].fill = 12 THEN DumpPolicy(sysctl, i + 1)
    ELSE os_error(sysctl[i].fill)

\* C18: try_get_msg_buf makes at most 3 attempts; it retries an attempt whose
\* fill failed because of a size race, uses the buffer of the first attempt
\* whose fill succeeds, and returns any other error (a failing size query, a
\* fill failure that is not a size race) as the OS error, neither retrying
\* nor replacing it.
C18_DumpRetriesOnlySizeRaces ==
    Called("try_get_msg_buf")
    => LET want == DumpPolicy(fn_arg.sysctl, 1)
       IN  IF want = Err("exhausted", 0) THEN ~fn_ret.v.ok
           ELSE fn_ret.v = want

\* C19: for a sockaddr of sa_len n the cursor of message_to_route advances by
\* the smallest multiple of 4 that is >= n, by 4 when n = 0, without the
\* computation overflowing; every sockaddr it records starts at a multiple
\* of 4.
C19_CursorAdvancesByRoundUp4 ==
    (Called("list_routes") /\ fn_arg.shape = "walk")
    => LET n == fn_arg.rec.body[SIZEOF_sockaddr_in + 1]
           walk == fn_ret.v.walk
       IN  /\ walk /= Panicked
           /\ walk.v[RTAX_GATEWAY] = Some(SIZEOF_sockaddr_in)
           /\ walk.v[RTAX_NETMASK]
                = Some(SIZEOF_sockaddr_in + (IF n = 0 THEN 4 ELSE ((n + 3) \div 4) * 4))
           /\ \A i \in 0..(RTAX_MAX - 1) : walk.v[i].some => walk.v[i].v % 4 = 0

\* C20: a record with the destination bit set decodes to the family width
\* when the netmask bit is clear, to 0 when the netmask sockaddr has sa_len 0,
\* and otherwise to the number of leading 1-bits of the netmask, also when the
\* netmask sockaddr is shorter than 16 bytes and is the last of the record.
C20_PrefixIsNetmaskLeadingOnes ==
    (Called("list_routes") /\ fn_arg.shape \in {"dump", "ifp", "fullmask"})
    => /\ IsOk(fn_ret.v.list)
       /\ Len(fn_ret.v.list.v.v) = 1
       /\ LET r == fn_ret.v.list.v.v[1]
          IN  r.prefix = IF RTAX_NETMASK \notin fn_arg.rec.hdr.rtm_addrs
                         THEN Width(r.destination.fam)
                         ELSE fn_arg.prefix

\* the gateway address as the kernel wrote it in the record: the second
\* sockaddr of the body
KernelGateway(rec) ==
    LET off == Len(sockaddr_of(sa_to_ip(rec.body, 0, 0).v.v))
    IN  sa_to_ip(rec.body, off, 0).v.v

\* the address lies in fe80::/10, or is multicast with scope nibble 1 or 2
ZoneEncoded(a) ==
    /\ a.fam = "V6"
    /\ \/ (a.oct[1] = 254 /\ a.oct[2] \in 128..191)
       \/ (a.oct[1] = 255 /\ a.oct[2] % 16 \in {1, 2})

\* C21: the decoded gateway of a record whose gateway lies in fe80::/10, or is
\* IPv6 multicast of scope 1 or 2, has bytes 2-3 zero and its other 14 bytes
\* as the kernel wrote them; every other gateway is decoded byte for byte.
C21_GatewayZoneBytesZeroed ==
    (Called("list_routes") /\ fn_arg.shape = "gateway")
    => /\ IsOk(fn_ret.v.list)
       /\ Len(fn_ret.v.list.v.v) = 1
       /\ LET k == KernelGateway(fn_arg.rec)
              g == fn_ret.v.list.v.v[1].gateway
          IN  /\ g.some /\ g.v.fam = k.fam
              /\ IF ZoneEncoded(k)
                 THEN /\ g.v.oct[3] = 0 /\ g.v.oct[4] = 0
                      /\ \A i \in (1..16) \ {3, 4} : g.v.oct[i] = k.oct[i]
                 ELSE g.v = k

\* C24: on Windows the row built from a route decodes to that route:
\* destination, prefix, gateway (None for a route without one), ifindex, luid
\* and metric are the route's.
C24_WindowsRowRoundTrip ==
    Called("row_to_route") => fn_ret = Returned(Some(fn_arg.rec))

\* C26: a request of add_or_del_route (add with a gateway only, with an
\* ifindex only, with both, and delete) carries as many sockaddrs as
\* rtm_addrs has bits, and message_to_route on its body returns the route's
\* destination and prefix and, for add, the route's gateway.
C26_RequestSockaddrsMatchAddrs ==
    Called("add_or_del_route")
    => LET req == fn_ret.v.req
           r == fn_ret.v.route
       IN  /\ SockaddrCount(req.body, 0) = Cardinality(req.hdr.rtm_addrs)
           /\ r /= Panicked /\ r.v.some
           /\ r.v.v.destination = fn_arg.rec.destination
           /\ r.v.v.prefix = fn_arg.rec.prefix
           /\ fn_arg.shape = "add" => r.v.v.gateway = fn_arg.rec.gateway

\* C28: list_routes ends for every dump buffer; every turn of its loop moves
\* the offset on by at least the size of rt_msghdr and no record is read past
\* the length sysctl returned, whatever rtm_msglen holds (0, less than the
\* header, more than the bytes remaining); over a well-formed buffer it
\* returns the records not flagged RTF_WASCLONED, in buffer order.
C28_ListRoutesLoopAdvances ==
    Called("list_routes_loop")
    => LET w == fn_ret.v
       IN  /\ w.out /= Diverges
           /\ \A i \in 1..(Len(w.visited) - 1) :
                 w.visited[i + 1] - w.visited[i] >= SIZEOF_rt_msghdr
           /\ ~w.beyond
           /\ fn_arg.shape = "dump"
              => w.out = list_routes_from(fn_arg.rec.records, <<>>, overflow_checks, 0)

\* the variant a notification is to be published as, "none" for a
\* notification that is no route change
VariantOf(n) ==
    IF os = "linux"
    THEN (IF n.kind = "NewRoute" THEN "Add"
          ELSE IF n.kind = "DelRoute" THEN "Delete" ELSE "none")
    ELSE IF os = "macos"
    THEN (IF n.hdr.rtm_type = RTM_ADD THEN "Add"
          ELSE IF n.hdr.rtm_type = RTM_DELETE THEN "Delete"
          ELSE IF n.hdr.rtm_type = RTM_CHANGE THEN "Change" ELSE "none")
    ELSE (IF n.type = "MibAddInstance" THEN "Add"
          ELSE IF n.type = "MibDeleteInstance" THEN "Delete"
          ELSE IF n.type = "MibParameterNotification" THEN "Change" ELSE "none")

\* C16: the listener publishes at most one event for the notification it
\* takes, of the variant of the notification's type (NewRoute, RTM_ADD,
\* MibAddInstance: Add; DelRoute, RTM_DELETE, MibDeleteInstance: Delete;
\* RTM_CHANGE, MibParameterNotification: Change); it publishes nothing for a
\* notification of another type, and on Linux it never publishes Change.
C16_EventVariantMatchesNotification ==
    [][(lq /= <<>> /\ lq' = Tail(lq))
       => \/ published' = published
          \/ /\ Len(published') = Len(published) + 1
             /\ SubSeq(published', 1, Len(published)) = published
             /\ published'[Len(published')].change.kind = VariantOf(Head(lq))
             /\ os = "linux" => published'[Len(published')].change.kind /= "Change"
      ]_vars

\* the listener is to publish the message: a whole RTM_ADD, RTM_DELETE or
\* RTM_CHANGE that carries a destination
IsRouteChange(n) ==
    /\ ~n.read_err /\ n.read >= SIZEOF_rt_msghdr
    /\ n.hdr.rtm_type \in {RTM_ADD, RTM_DELETE, RTM_CHANGE}
    /\ RTAX_DST \in n.hdr.rtm_addrs

\* C30: while the Handle is alive the macOS listener keeps running whatever
\* it reads (a message of another type, a short one, one of length 0, one
\* without a destination, a failed read), with or without a subscriber, and
\* publishes every RTM_ADD, RTM_DELETE and RTM_CHANGE that carries a
\* destination.
C30_MacListenerNeverStops ==
    [][(os = "macos" /\ handle = "alive" /\ lq /= <<>> /\ lq' = Tail(lq))
       => /\ listener' = "running"
          /\ IsRouteChange(Head(lq)) => Len(published') = Len(published) + 1
      ]_vars

\* on macOS the listener has taken two notifications and has published one
\* event, a Change
C16_Witness ==
    /\ os = "macos"
    /\ budget = MaxNotifications - 2 /\ lq = <<>>
    /\ Len(published) = 1 /\ published[1].change.kind = "Change"

(***************************************************************************)
(* Properties of the fan-out.                                              *)
(***************************************************************************)
\* the position in the channel of the j-th value it holds
Position(j) == Oldest(chan) + j - 1

\* C5: whatever the number of streams and the interleaving of sends and
\* polls, what a stream has yielded is a strictly increasing selection of the
\* events sent after the stream was created, each as it was sent; and it is
\* all of them, in order, for a stream that was never left behind.
C5_StreamYieldsSubsequence ==
    \A s \in Subscribers :
        LET y == subs[s].yielded
        IN  /\ \A k \in 1..Len(y) :
                  /\ y[k].id \in (subs[s].subAt + 1)..Len(published)
                  /\ y[k] = published[y[k].id]
            /\ \A k \in 1..(Len(y) - 1) : y[k].id < y[k + 1].id
            /\ subs[s].lagged = 0 => \A k \in 1..Len(y) : y[k].id = subs[s].subAt + k
            /\ (subs[s].lagged = 0 /\ subs[s].state = "ended")
                  => Len(y) = Len(published) - subs[s].subAt

\* stream 1 was left behind and went on after the skip, while stream 2,
\* created after the first event, has all sixteen events sent since
C5_Witness ==
    /\ subs[1].lagged > 0 /\ Len(subs[1].yielded) > 0
    /\ subs[2].lagged = 0 /\ subs[2].subAt = 1 /\ Len(subs[2].yielded) = Capacity

\* C6: the channel holds at most 16 events; sending neither blocks nor fails
\* the listener, with no stream, one or several; a stream left more than 16
\* events behind yields no error, passes over exactly the events the channel
\* no longer holds and goes on with the oldest one it holds, in order.
C6_BoundedLossyFanout ==
    /\ Len(chan.buf) <= Capacity
    /\ listener /= "panicked"
    /\ \A s \in Subscribers :
          LET y == subs[s].yielded
              r == recv(chan, subs[s].next, closed)
          IN  /\ \A j \in 1..Len(chan.buf) :
                    (/\ subs[s].state = "active"
                     /\ chan.buf[j].id > subs[s].subAt
                     /\ \A k \in 1..Len(y) : y[k] /= chan.buf[j])
                    => Position(j) >= subs[s].next
              /\ \A k \in 1..(Len(y) - 1) : y[k].id < y[k + 1].id
              /\ (subs[s].state = "active" /\ r.tag = "Lagged")
                    => /\ r.next = Oldest(chan)
                       /\ recv(chan, r.next, closed).tag = "Ok"
                       /\ recv(chan, r.next, closed).ev = chan.buf[1]

\* seventeen events were sent while stream 1 did not poll; it then passed
\* over the first and yielded the second, the oldest the channel held; and
\* an event had been sent before any stream existed
C6_Witness ==
    /\ Len(chan.buf) = Capacity
    /\ subs[1].lagged = 1 /\ subs[1].subAt = 1
    /\ Len(subs[1].yielded) >= 1 /\ subs[1].yielded[1].id = 3
    /\ Len(published) > chan.tail

\* C7: a stream ends only once every sender is gone, that is after the Handle
\* was dropped and the listener's clone released, and only after it has
\* yielded what the channel held for it; while the Handle is alive no stream
\* ends, the listener running or not; and after the Handle is dropped every
\* stream that is polled ends.
C7_StreamEndsExactlyOnClose ==
    /\ [](\A s \in Subscribers :
            subs[s].state = "ended" => (closed /\ subs[s].next = chan.tail))
    /\ [](handle = "alive" => \A s \in Subscribers : subs[s].state /= "ended")
    /\ \A s \in Subscribers :
          [](handle = "dropped" /\ subs[s].state = "active"
                => <>(subs[s].state = "ended"))

\* the Handle was dropped with an event still in the channel for stream 1;
\* the stream yielded it and then ended
C7_Witness ==
    /\ handle = "dropped"
    /\ subs[1].state = "ended"
    /\ Len(subs[1].yielded) = Len(published) /\ Len(published) >= 1

(***************************************************************************)
(* Notifications of the Handle's own changes.                              *)
(***************************************************************************)
\* nothing is in flight and stream s has yielded all there was, without a skip
Quiet(s) ==
    /\ call = Idle /\ nl_queue = <<>> /\ lq = <<>> /\ listener = "running"
    /\ subs[s].state = "active" /\ subs[s].lagged = 0 /\ subs[s].next = chan.tail

\* stream s yielded kind(r') at index k, r' having r's destination and prefix
YieldedAt(s, k, kind, r) ==
    /\ k \in 1..Len(subs[s].yielded)
    /\ subs[s].yielded[k].change.kind = kind
    /\ subs[s].yielded[k].change.route.destination = r.destination
    /\ subs[s].yielded[k].change.route.prefix = r.prefix

\* C8: a stream created before add(r) is called, for a route r with a gateway,
\* has yielded Add(r') with r's destination, prefix and gateway once add(r)
\* has succeeded and the stream has caught up without a skip; and after
\* delete(r) then succeeded it has yielded, later, Delete(r') for that route.
C8_OwnChangesAreNotified ==
    \A s \in Subscribers : \A i \in 1..Len(hist) :
        LET a == hist[i]
        IN  (/\ Succeeded(a, "add") /\ a.route.v.gateway.some
             /\ s \in a.seen /\ Quiet(s))
            => /\ \E k \in 1..Len(subs[s].yielded) :
                     /\ YieldedAt(s, k, "Add", a.route.v)
                     /\ subs[s].yielded[k].change.route.gateway = a.route.v.gateway
               /\ (/\ i < Len(hist)
                   /\ Succeeded(hist[i + 1], "delete") /\ hist[i + 1].route = a.route)
                  => \E k, d \in 1..Len(subs[s].yielded) :
                        /\ k < d
                        /\ YieldedAt(s, k, "Add", a.route.v)
                        /\ YieldedAt(s, d, "Delete", a.route.v)

====
